---- MODULE Spec2Model ----
(***************************************************************************)
(* Dual-source WASAPI capture of src/src/main.cpp: the two recorder        *)
(* classes (WASAPILoopbackRecorder, WASAPIMicrophoneRecorder), their       *)
(* acquisition threads, the platform endpoint they pull packets from, and  *)
(* the three recording sessions (record_wasapi_loopback,                   *)
(* record_microphone_only, record_dual_audio).                             *)
(*                                                                         *)
(* Two specifications share the recorder, thread and endpoint actions:     *)
(*   Spec     the sessions of main.cpp as the only caller of the recorders *)
(*   RecSpec  an arbitrary single-threaded caller of the recorder API      *)
(* FairSpec is the single-source sessions of Spec with the scheduling      *)
(* fairness of the OS threads.                                             *)
(***************************************************************************)
EXTENDS Integers, Sequences, FiniteSets, TLC

\* ------------------------------------------------------------- bounds ----
\* events of the platform during a run: a frame delivered by an endpoint (in
\* packets of one frame or more) or a failing call of an acquisition thread
MaxEvents == 2
\* API calls made by the caller of RecSpec
MaxCalls == 5
\* cap of the ghost counter of wait timeouts seen after the stop flag was set
MaxLate == 2
\* characters in a friendly name or in a device selector
MaxName == 2
\* active capture endpoints the enumerator lists
MaxEndpoints == 2
\* samples in a stream handed to the mixer
MaxLen == 2

\* samples in the buffer of a loop that is fed results
MaxSamples == 3

\* characters of the --out path
MaxPath == 3

\* calls of Cleanup by the owner before the destructor
MaxCleanups == 2

\* ------------------------------------------------------ program values ----
Recorders == {"loopback", "microphone"}

\* the SimpleWAVWriter objects of a session: wavWriter or loopbackWriter,
\* wavWriter or micWriter, mixedWriter
Sinks == {"loopback", "microphone", "mixed"}

\* what the acquisition thread distinguishes in waveFormat: IEEE float,
\* wBitsPerSample == 16, wBitsPerSample == 32, anything else
SampleFormats == {"float32", "int16", "int32", "other"}

\* enum class CaptureMode
CaptureMode == {"LOOPBACK_ONLY", "MICROPHONE_ONLY", "DUAL_SEPARATE", "DUAL_STEREO", "DUAL_MONO"}

\* waveFormat->nChannels as returned by GetMixFormat
Channels == {1, 2}

NoRc == -1

VARIABLES
    \* ---- recorder objects (one per class instance)
    initialized,    \* bool initialized
    recording,      \* bool recording
    stopFlag,       \* std::atomic<bool> stopFlag
    tpc,            \* position of recordingThread; "none" = not joinable
    audioBuffer,    \* std::vector<float> audioBuffer, as capture indices
    bufferMutex,    \* std::mutex bufferMutex: "free" or "thread"
    nChannels,      \* waveFormat->nChannels (0 while waveFormat == nullptr)
    packetLength,   \* local packetLength of RecordingThreadFunc
    todo,           \* sampleCount of the packet in hand
    silent,         \* flags & AUDCLNT_BUFFERFLAGS_SILENT of the packet in hand
    waitResult,     \* DWORD waitResult of the iteration of the acquisition
                    \* loop that runs or has just ended, else "none"
    \* ---- platform endpoint
    pending,        \* packets queued in the endpoint: [frames, silent, gap]
    event,          \* auto-reset eventHandle is signalled
    delivered,      \* frames delivered so far
    faults,         \* platform calls that have failed so far
    \* ---- history of one source
    appended,       \* samples appended to audioBuffer so far
    spawned,        \* threads spawned so far
    failed,         \* a wait/GetNextPacketSize/GetBuffer/ReleaseBuffer call failed in the running thread
    fatal,          \* the running thread left its loop because of an error
    lateTimeouts,   \* wait timeouts after the stop flag was set
    stopped,        \* a StopRecording call made while recording has returned
    \* ---- session (record_* functions) or caller
    mode,           \* RecordOptions::mode
    spc,            \* position of the session / caller
    cur,            \* recorder the session / caller is operating on
    data,           \* local copies audioData / loopbackData / micData
    block,          \* per writer, the float block of the current pass of the
                    \* drain loop that is converted and handed to writeInt16
    sinkState,      \* SimpleWAVWriter per source: "unopened", "open", "closed"
    written,        \* samples of each source handed to writeInt16
    rc,             \* return value of the record_* function
    initRes,        \* result of Initialize per recorder: "none", "ok", "failed"
    \* ---- RecSpec caller
    call,           \* last API call: [op, rec, ret]
    nCalls,         \* API calls that have returned
    \* ---- inputs from outside the program
    mixFormat,      \* sample format of the endpoint's mix format (GetMixFormat)
    stopSignal,     \* an explicit stop of the session has been requested
    writeFault,     \* the output device fails: file.write of the writers fails
    \* ---- arguments and results of the functions checked on their own
    deviceSubstr,   \* WASAPIMicrophoneRecorder::deviceSubstr
    endpoints,      \* the active capture endpoints in enumeration order
    enumOk,         \* EnumAudioEndpoints succeeds
    defaultOk,      \* GetDefaultAudioEndpoint succeeds
    device,         \* the result of GetMicrophoneDevice: [hr, dev]
    stream1,        \* first argument of an AudioMixer function
    stream2,        \* second argument of an AudioMixer function
    gain1,          \* MixMono gain1
    gain2,          \* MixMono gain2
    result,         \* std::vector<float> returned by the last AudioMixer call
    ops,            \* the AudioMixer functions called so far
    int16Data,      \* a native 16-bit sample of a packet
    sample,         \* the float32 sample made of it
    int16Back,      \* the 16-bit sample written to the WAV file
    convPc,         \* which of the three exists: "native", "float", "int16"
    \* ---- the capture formats and the WAV headers made of them
    waveFormat,     \* per recorder: [nSamplesPerSec, nChannels] of its mix format
    openMode,       \* RecordOptions::mode of the session that opens the writers
    header,         \* per writer: the [sampleRate, numChannels] given to open
    \* ---- the reduction of a drained block to one sample per frame
    srcChannels,    \* loopbackChannels or micChannels
    srcBlock,       \* loopbackData or micData: interleaved frames
    mono,           \* loopbackMono or micMono
    monoPc,         \* "idle", "drained", "reduced"
    \* ---- AudioRecorder of record.cpp and its main
    arRecording,    \* std::atomic<bool> recording
    shouldStop,     \* std::atomic<bool> shouldStop
    mainPc,         \* position of main
    recPc,          \* position of recordingThread
    kbPc,           \* position of keyboardThread
    client,         \* the client CaptureAudioData is called with
    hr,             \* local hr of CaptureAudioData
    arPacketLength, \* local packetLength of CaptureAudioData
    resampled,      \* ResampleAudio has returned
    saved,          \* calls of SaveToWAV
    timer,          \* steady_clock::now() >= endTime
    keyQ,           \* a 'q' waits in the console input
    \* ---- the native resources of AudioRecorder (record.cpp)
    resPc,          \* step of Initialize, then of Cleanup: [fn, at]
    resPtr,         \* per member pointer: it is not nullptr
    resAcquired,    \* per resource: times it was handed out by the platform
    resReleased,    \* per resource: times it was released or freed
    \* ---- COM initialization of a WASAPI recorder (main.cpp)
    comRec,         \* the recorder: WASAPILoopbackRecorder or WASAPIMicrophoneRecorder
    comPc,          \* [fn, at]: the step of Initialize, then the calls of Cleanup
    comInitialized, \* bool initialized
    comInits,       \* successful calls of CoInitializeEx
    comUninits,     \* calls of CoUninitialize
    comHr,          \* what CoInitializeEx returned
    comPath,        \* how Initialize ended: "true" or the step that failed
    \* ---- the float-to-int16 step on any float
    fIn,            \* float sample of the loop: [nan, v], v in 32768ths
    fPath,          \* "drain" (main.cpp) or "resample" (record.cpp)
    fOut,           \* the int16_t pushed to the data written to the file
    clampPc,        \* "idle", "float", "int16"
    \* ---- the output path of main (main.cpp)
    outPath,        \* rec_opt.out_path, a sequence of characters
    pathMode,       \* rec_opt.mode
    files,          \* the paths at which this run has created a file
    pathRc,         \* rc of the record_* function
    readPath,       \* the path given to transcribe_whisper_tdrz
    \* ---- the two acquisition loops fed the same results
    lbThread,       \* WASAPILoopbackRecorder::RecordingThreadFunc: [pc, packetLength, audioBuffer]
    micThread,      \* WASAPIMicrophoneRecorder::RecordingThreadFunc: the same
    fedFormat,      \* the sample format of both endpoints
    fedChannels     \* waveFormat->nChannels of both endpoints

recVars == <<initialized, recording, stopFlag, tpc, nChannels>>
bufVars == <<audioBuffer, bufferMutex, appended>>
locVars == <<packetLength, todo, silent, waitResult>>
epVars == <<pending, event, delivered, faults>>
histVars == <<spawned, failed, fatal, lateTimeouts, stopped>>
sessVars == <<mode, spc, cur, data, block, sinkState, written, rc, initRes>>
cliVars == <<call, nCalls>>
inVars == <<mixFormat, stopSignal, writeFault>>
devVars == <<deviceSubstr, endpoints, enumOk, defaultOk, device>>
mixVars == <<stream1, stream2, gain1, gain2, result, ops>>
convVars == <<int16Data, sample, int16Back, convPc>>
hdrVars == <<waveFormat, openMode, header>>
monoVars == <<srcChannels, srcBlock, mono, monoPc>>
arVars == <<arRecording, shouldStop, mainPc, recPc, kbPc, client, hr, arPacketLength, resampled, saved, timer, keyQ>>
resVars == <<resPc, resPtr, resAcquired, resReleased>>
comVars == <<comRec, comPc, comInitialized, comInits, comUninits, comHr, comPath>>
clampVars == <<fIn, fPath, fOut, clampPc>>
pathVars == <<outPath, pathMode, files, pathRc, readPath>>
fedVars == <<lbThread, micThread, fedFormat, fedChannels>>
\* the groups of the functions below "capture formats"
laterVars == <<hdrVars, monoVars, arVars, resVars, comVars, clampVars, pathVars, fedVars>>
fnVars == <<devVars, mixVars, convVars, laterVars>>
progVars == <<recVars, bufVars, locVars, epVars, histVars, sessVars, cliVars, inVars>>
hdrRest == <<progVars, devVars, mixVars, convVars, monoVars, arVars, resVars, comVars, clampVars, pathVars, fedVars>>
monoRest == <<progVars, devVars, mixVars, convVars, hdrVars, arVars, resVars, comVars, clampVars, pathVars, fedVars>>
arRest == <<progVars, devVars, mixVars, convVars, hdrVars, monoVars, resVars, comVars, clampVars, pathVars, fedVars>>
resRest == <<progVars, devVars, mixVars, convVars, hdrVars, monoVars, arVars, comVars, clampVars, pathVars, fedVars>>
comRest == <<progVars, devVars, mixVars, convVars, hdrVars, monoVars, arVars, resVars, clampVars, pathVars, fedVars>>
clampRest == <<progVars, devVars, mixVars, convVars, hdrVars, monoVars, arVars, resVars, comVars, pathVars, fedVars>>
pathRest == <<progVars, devVars, mixVars, convVars, hdrVars, monoVars, arVars, resVars, comVars, clampVars, fedVars>>
fedRest == <<progVars, devVars, mixVars, convVars, hdrVars, monoVars, arVars, resVars, comVars, clampVars, pathVars>>
vars == <<recVars, bufVars, locVars, epVars, histVars, sessVars, cliVars, inVars, fnVars>>

NoCall == [op |-> "none", rec |-> "none", ret |-> "none"]

\* GetMicrophoneDevice has not been called
NoDevice == [hr |-> "none", dev |-> -1]

DeviceIdle ==
    /\ deviceSubstr = <<>>
    /\ endpoints = <<>>
    /\ enumOk = TRUE
    /\ defaultOk = TRUE
    /\ device = NoDevice

MixerIdle ==
    /\ stream1 = <<>>
    /\ stream2 = <<>>
    /\ gain1 = 0
    /\ gain2 = 0
    /\ result = <<>>
    /\ ops = <<>>

ConvIdle ==
    /\ int16Data = 0
    /\ sample = 0
    /\ int16Back = 0
    /\ convPc = "idle"

\* no function is being checked on its own
\* no writer has been opened
NoHeader == [sampleRate |-> 0, numChannels |-> 0]

HdrIdle ==
    /\ waveFormat = <<>>
    /\ openMode = "none"
    /\ header = <<>>

MonoIdle ==
    /\ srcChannels = 0
    /\ srcBlock = <<>>
    /\ mono = <<>>
    /\ monoPc = "idle"

ArIdle ==
    /\ arRecording = FALSE
    /\ shouldStop = FALSE
    /\ mainPc = "idle"
    /\ recPc = "none"
    /\ kbPc = "none"
    /\ client = "none"
    /\ hr = "S_OK"
    /\ arPacketLength = 0
    /\ resampled = FALSE
    /\ saved = 0
    /\ timer = FALSE
    /\ keyQ = FALSE

ResIdle ==
    /\ resPc = [fn |-> "none", at |-> 0]
    /\ resPtr = <<>>
    /\ resAcquired = <<>>
    /\ resReleased = <<>>

ComIdle ==
    /\ comRec = "none"
    /\ comPc = [fn |-> "none", at |-> 0]
    /\ comInitialized = FALSE
    /\ comInits = 0
    /\ comUninits = 0
    /\ comHr = "none"
    /\ comPath = "none"

ClampIdle ==
    /\ fIn = [nan |-> FALSE, v |-> 0]
    /\ fPath = "none"
    /\ fOut = 0
    /\ clampPc = "idle"

PathIdle ==
    /\ outPath = <<>>
    /\ pathMode = "none"
    /\ files = {}
    /\ pathRc = NoRc
    /\ readPath = <<>>

NoThread == [pc |-> "none", packetLength |-> 0, audioBuffer |-> <<>>]

FedIdle ==
    /\ lbThread = NoThread
    /\ micThread = NoThread
    /\ fedFormat = "none"
    /\ fedChannels = 0

LaterIdle == HdrIdle /\ MonoIdle /\ ArIdle /\ ResIdle /\ ComIdle /\ ClampIdle /\ PathIdle /\ FedIdle

FnIdle == DeviceIdle /\ MixerIdle /\ ConvIdle /\ LaterIdle

\* state after construction of the recorder objects (member initialisers)
RecorderInit ==
    /\ initialized = [r \in Recorders |-> FALSE]
    /\ recording = [r \in Recorders |-> FALSE]
    /\ stopFlag = [r \in Recorders |-> FALSE]
    /\ tpc = [r \in Recorders |-> "none"]
    /\ audioBuffer = [r \in Recorders |-> <<>>]
    /\ bufferMutex = [r \in Recorders |-> "free"]
    /\ nChannels = [r \in Recorders |-> 0]
    /\ packetLength = [r \in Recorders |-> 0]
    /\ todo = [r \in Recorders |-> 0]
    /\ silent = [r \in Recorders |-> FALSE]
    /\ waitResult = [r \in Recorders |-> "none"]
    /\ pending = [r \in Recorders |-> <<>>]
    /\ event = [r \in Recorders |-> FALSE]
    /\ delivered = [r \in Recorders |-> 0]
    /\ faults = 0
    /\ appended = [r \in Recorders |-> 0]
    /\ spawned = [r \in Recorders |-> 0]
    /\ failed = [r \in Recorders |-> FALSE]
    /\ fatal = [r \in Recorders |-> FALSE]
    /\ lateTimeouts = [r \in Recorders |-> 0]
    /\ stopped = [r \in Recorders |-> FALSE]
    /\ data = [r \in Recorders |-> <<>>]
    /\ block = [k \in Sinks |-> <<>>]
    /\ sinkState = [k \in Sinks |-> "unopened"]
    /\ written = [r \in Recorders |-> <<>>]
    /\ rc = NoRc
    /\ initRes = [r \in Recorders |-> "none"]
    /\ cur = "none"
    /\ call = NoCall
    /\ nCalls = 0
    /\ stopSignal = FALSE
    /\ writeFault = FALSE

\* ------------------------------------------------------------ helpers ----
Set(f, r, v) == [f EXCEPT ![r] = v]

Min(a, b) == IF a < b THEN a ELSE b

\* ------------------------------------------------- platform endpoint ----
\* The endpoint produces a packet and signals the event handle given to
\* SetEventHandle; it does so only between audioClient->Start and ->Stop.
Streaming(r) == tpc[r] \notin {"none", "start", "done"}

TotalDelivered == delivered["loopback"] + delivered["microphone"]

\* platform events so far
Events == TotalDelivered + faults

DeliverPacket(r, s, g) ==
    /\ Streaming(r)
    /\ \E n \in 1..(MaxEvents - Events) :
          /\ delivered' = Set(delivered, r, delivered[r] + n)
          /\ pending' = Set(pending, r, Append(pending[r],
                               [frames |-> n, silent |-> s, gap |-> g]))
    /\ event' = Set(event, r, TRUE)
    /\ UNCHANGED <<faults, recVars, bufVars, locVars, histVars, sessVars, cliVars, inVars, fnVars>>

\* a packet of audio data
Deliver(r) == DeliverPacket(r, FALSE, FALSE)

\* a packet flagged AUDCLNT_BUFFERFLAGS_SILENT
DeliverSilent(r) == DeliverPacket(r, TRUE, FALSE)

\* a packet flagged AUDCLNT_BUFFERFLAGS_DATA_DISCONTINUITY, silent or not
DeliverDiscontinuity(r) == \E s \in BOOLEAN : DeliverPacket(r, s, TRUE)

\* a call into the platform fails (FAILED(hr), WAIT_FAILED)
CallFails == Events < MaxEvents /\ faults' = faults + 1

\* a call into the platform succeeds
CallSucceeds == faults' = faults

\* ------------------------------------------------ acquisition thread ----
\* hr = audioClient->Start(); a failure returns from the thread function
ThreadStart(r) ==
    /\ tpc[r] = "start"
    /\ \/ CallSucceeds /\ tpc' = Set(tpc, r, "loop") /\ fatal' = fatal
       \/ CallFails /\ tpc' = Set(tpc, r, "done") /\ fatal' = Set(fatal, r, TRUE)
    /\ waitResult' = Set(waitResult, r, "none")
    /\ UNCHANGED <<initialized, recording, stopFlag, nChannels, bufVars,
                   packetLength, todo, silent,
                   pending, event, delivered,
                   spawned, stopped, failed, lateTimeouts, sessVars, cliVars, inVars, fnVars>>

\* acquisition loop whose condition does not read the stop flag
ThreadLoop_IgnoresStop(r) ==
    /\ tpc[r] = "loop"
    /\ tpc' = Set(tpc, r, "wait")
    /\ waitResult' = Set(waitResult, r, "none")
    /\ UNCHANGED <<initialized, recording, stopFlag, nChannels, bufVars,
                   packetLength, todo, silent, epVars,
                   histVars, sessVars, cliVars, inVars, fnVars>>

\* while (!stopFlag.load())
ThreadLoop(r) ==
    /\ tpc[r] = "loop"
    /\ tpc' = Set(tpc, r, IF stopFlag[r] THEN "exit" ELSE "wait")
    /\ waitResult' = Set(waitResult, r, "none")
    /\ UNCHANGED <<initialized, recording, stopFlag, nChannels, bufVars,
                   packetLength, todo, silent, epVars,
                   histVars, sessVars, cliVars, inVars, fnVars>>

\* a timeout that breaks the acquisition loop
AfterTimeout_Break == "exit"

\* position after WaitForSingleObject returned WAIT_TIMEOUT: continue
AfterTimeout == "loop"

\* WaitForSingleObject(eventHandle, 2000): WAIT_OBJECT_0 consumes the
\* auto-reset event, WAIT_TIMEOUT continues, anything else breaks the loop
ThreadWait(r) ==
    /\ tpc[r] = "wait"
    /\ \/ /\ event[r]
          /\ CallSucceeds
          /\ event' = Set(event, r, FALSE)
          /\ waitResult' = Set(waitResult, r, "WAIT_OBJECT_0")
          /\ tpc' = Set(tpc, r, "check")
          /\ UNCHANGED <<failed, fatal, lateTimeouts>>
       \/ /\ ~event[r]
          /\ CallSucceeds
          /\ waitResult' = Set(waitResult, r, "WAIT_TIMEOUT")
          /\ tpc' = Set(tpc, r, AfterTimeout)
          /\ lateTimeouts' = Set(lateTimeouts, r,
                 IF stopFlag[r] THEN Min(lateTimeouts[r] + 1, MaxLate) ELSE lateTimeouts[r])
          /\ UNCHANGED <<event, failed, fatal>>
       \/ /\ CallFails
          /\ waitResult' = Set(waitResult, r, "WAIT_FAILED")
          /\ tpc' = Set(tpc, r, "exit")
          /\ failed' = Set(failed, r, TRUE)
          /\ fatal' = Set(fatal, r, TRUE)
          /\ UNCHANGED <<event, lateTimeouts>>
    /\ UNCHANGED <<initialized, recording, stopFlag, nChannels, bufVars,
                   packetLength, todo, silent,
                   pending, delivered, spawned, stopped, sessVars, cliVars, inVars, fnVars>>

\* if (stopFlag.load()) break;
ThreadCheckStop(r) ==
    /\ tpc[r] = "check"
    /\ tpc' = Set(tpc, r, IF stopFlag[r] THEN "exit" ELSE "gnps")
    /\ UNCHANGED <<initialized, recording, stopFlag, nChannels, bufVars, locVars, epVars,
                   histVars, sessVars, cliVars, inVars, fnVars>>

\* size in frames of the next packet of the endpoint, 0 when there is none
NextPacketSize(r) == IF pending[r] # <<>> THEN Head(pending[r]).frames ELSE 0

\* while (packetLength != 0): position after the test of the inner loop
InnerLoop(n) == IF n # 0 THEN "inner" ELSE "loop"

\* hr = captureClient->GetNextPacketSize(&packetLength) before the inner
\* loop; a failure breaks the outer loop
ThreadGetNextPacketSize(r) ==
    /\ tpc[r] = "gnps"
    /\ \/ /\ CallSucceeds
          /\ packetLength' = Set(packetLength, r, NextPacketSize(r))
          /\ tpc' = Set(tpc, r, InnerLoop(NextPacketSize(r)))
          /\ UNCHANGED <<failed, fatal>>
       \/ /\ CallFails
          /\ tpc' = Set(tpc, r, "exit")
          /\ failed' = Set(failed, r, TRUE)
          /\ fatal' = Set(fatal, r, TRUE)
          /\ UNCHANGED packetLength
    /\ UNCHANGED <<initialized, recording, stopFlag, nChannels, bufVars, todo, silent, waitResult,
                   pending, event, delivered,
                   spawned, stopped, lateTimeouts, sessVars, cliVars, inVars, fnVars>>

\* position reached by a break out of the inner while (packetLength != 0):
\* control falls to the end of the outer loop body and so to its condition
InnerBreakTarget == "loop"

\* while (packetLength != 0) { hr = captureClient->GetBuffer(&data,
\* &framesAvailable, &flags, ...);
\* sampleCount = framesAvailable * waveFormat->nChannels
ThreadGetBuffer(r) ==
    /\ tpc[r] = "inner"
    /\ \/ /\ CallSucceeds
          /\ todo' = Set(todo, r, packetLength[r] * nChannels[r])
          /\ silent' = Set(silent, r, Head(pending[r]).silent)
          /\ tpc' = Set(tpc, r, "lock")
          /\ UNCHANGED failed
       \/ /\ CallFails
          /\ tpc' = Set(tpc, r, InnerBreakTarget)
          /\ failed' = Set(failed, r, TRUE)
          /\ UNCHANGED <<todo, silent>>
    /\ UNCHANGED <<initialized, recording, stopFlag, nChannels, bufVars, packetLength, waitResult,
                   pending, event, delivered,
                   spawned, stopped, fatal, lateTimeouts, sessVars, cliVars, inVars, fnVars>>

\* std::lock_guard<std::mutex> lock(bufferMutex);
ThreadLock(r) ==
    /\ tpc[r] = "lock"
    /\ bufferMutex[r] = "free"
    /\ bufferMutex' = Set(bufferMutex, r, "thread")
    /\ tpc' = Set(tpc, r, "append")
    /\ UNCHANGED <<initialized, recording, stopFlag, nChannels, audioBuffer, appended, locVars,
                   epVars, histVars, sessVars, cliVars, inVars, fnVars>>

\* the capture indices of the next n samples of source r
NewSamples(r, n) == [i \in 1..n |-> appended[r] + i]

\* a thread that does not test the flags of the packet
PacketSamples_IgnoresSilent(r) ==
    IF mixFormat[r] \in {"float32", "int16", "int32"} THEN NewSamples(r, todo[r])
    ELSE <<>>

\* the samples the packet in hand adds to audioBuffer: sampleCount zeros
\* for a silent packet, else its sampleCount samples as float32 when the
\* format is one of the three the thread converts, else nothing
PacketSamples(r) ==
    IF silent[r] THEN [i \in 1..todo[r] |-> 0]
    ELSE IF mixFormat[r] \in {"float32", "int16", "int32"} THEN NewSamples(r, todo[r])
    ELSE <<>>

\* the thread is in the block that turns the int16 or int32 samples of
\* the packet in hand into float32, one push_back(data[i] / scale) each
Converting(r) ==
    /\ tpc[r] = "append"
    /\ ~silent[r]
    /\ mixFormat[r] \in {"int16", "int32"}

\* one sample of the packet in hand is stored in audioBuffer, more follow
\* before the lock_guard goes out of scope
ThreadPushBack(r) ==
    /\ tpc[r] = "append"
    /\ todo[r] > 1
    /\ Len(PacketSamples(r)) = todo[r]
    /\ audioBuffer' = Set(audioBuffer, r, Append(audioBuffer[r], Head(PacketSamples(r))))
    /\ appended' = Set(appended, r, appended[r] + 1)
    /\ todo' = Set(todo, r, todo[r] - 1)
    /\ UNCHANGED <<recVars, bufferMutex, packetLength, silent, waitResult, epVars,
                   histVars, sessVars, cliVars, inVars, fnVars>>

\* audioBuffer.insert(...) / audioBuffer.push_back(...) for each sample of
\* the packet, then the lock_guard goes out of scope
ThreadAppend(r) ==
    /\ tpc[r] = "append"
    /\ audioBuffer' = Set(audioBuffer, r, audioBuffer[r] \o PacketSamples(r))
    /\ appended' = Set(appended, r, appended[r] + Len(PacketSamples(r)))
    /\ todo' = Set(todo, r, 0)
    /\ bufferMutex' = Set(bufferMutex, r, "free")
    /\ tpc' = Set(tpc, r, "release")
    /\ UNCHANGED <<initialized, recording, stopFlag, nChannels, packetLength, silent, waitResult,
                   epVars,
                   histVars, sessVars, cliVars, inVars, fnVars>>

\* hr = captureClient->ReleaseBuffer(framesAvailable); a failure breaks the
\* inner loop and leaves the packet in the endpoint
ThreadReleaseBuffer(r) ==
    /\ tpc[r] = "release"
    /\ \/ /\ CallSucceeds
          /\ pending' = Set(pending, r, Tail(pending[r]))
          /\ tpc' = Set(tpc, r, "gnps2")
          /\ UNCHANGED failed
       \/ /\ CallFails
          /\ tpc' = Set(tpc, r, InnerBreakTarget)
          /\ failed' = Set(failed, r, TRUE)
          /\ UNCHANGED pending
    /\ UNCHANGED <<initialized, recording, stopFlag, nChannels, bufVars, locVars, event, delivered,
                   spawned, stopped, fatal, lateTimeouts, sessVars, cliVars, inVars, fnVars>>

\* hr = captureClient->GetNextPacketSize(&packetLength) at the end of the
\* inner loop body; a failure breaks the inner loop
ThreadGetNextPacketSizeInner(r) ==
    /\ tpc[r] = "gnps2"
    /\ \/ /\ CallSucceeds
          /\ packetLength' = Set(packetLength, r, NextPacketSize(r))
          /\ tpc' = Set(tpc, r, InnerLoop(NextPacketSize(r)))
          /\ UNCHANGED failed
       \/ /\ CallFails
          /\ tpc' = Set(tpc, r, InnerBreakTarget)
          /\ failed' = Set(failed, r, TRUE)
          /\ UNCHANGED packetLength
    /\ UNCHANGED <<initialized, recording, stopFlag, nChannels, bufVars, todo, silent, waitResult,
                   pending, event, delivered,
                   spawned, stopped, fatal, lateTimeouts, sessVars, cliVars, inVars, fnVars>>

\* audioClient->Stop(); the thread function returns
ThreadExit(r) ==
    /\ tpc[r] = "exit"
    /\ tpc' = Set(tpc, r, "done")
    /\ waitResult' = Set(waitResult, r, "none")
    /\ UNCHANGED <<initialized, recording, stopFlag, nChannels, bufVars,
                   packetLength, todo, silent, epVars,
                   histVars, sessVars, cliVars, inVars, fnVars>>

RecordingThreadFunc(r) ==
    \/ ThreadStart(r)
    \/ ThreadLoop(r)
    \/ ThreadWait(r)
    \/ ThreadCheckStop(r)
    \/ ThreadGetNextPacketSize(r)
    \/ ThreadGetBuffer(r)
    \/ ThreadLock(r)
    \/ ThreadAppend(r)
    \/ ThreadReleaseBuffer(r)
    \/ ThreadGetNextPacketSizeInner(r)
    \/ ThreadExit(r)

\* ---------------------------------------------------- recorder methods ----
\* bool Initialize(): every failing step returns false with initialized
\* still false and (through Cleanup) waveFormat == nullptr; success sets
\* initialized and leaves the mix format of the endpoint in waveFormat
Initialize(r, ok, ch) ==
    /\ initialized' = Set(initialized, r, ok)
    /\ nChannels' = Set(nChannels, r, IF ok THEN ch ELSE 0)

\* StartRecording without the test of recording
StartRecordingRet_NoRecordingTest(r) == initialized[r]

\* StartRecording that refuses a recorder that was stopped before
StartRecordingRet_NoRestart(r) == initialized[r] /\ ~recording[r] /\ ~stopped[r]

\* return value of StartRecording: if (!initialized || recording) return false;
StartRecordingRet(r) == initialized[r] /\ ~recording[r]

\* bool StartRecording()
StartRecording(r) ==
    IF StartRecordingRet(r)
       THEN /\ stopFlag' = Set(stopFlag, r, FALSE)
            /\ tpc' = Set(tpc, r, "start")
            /\ recording' = Set(recording, r, TRUE)
            /\ spawned' = Set(spawned, r, spawned[r] + 1)
            /\ failed' = Set(failed, r, FALSE)
            /\ fatal' = Set(fatal, r, FALSE)
            /\ lateTimeouts' = Set(lateTimeouts, r, 0)
       ELSE UNCHANGED <<stopFlag, tpc, recording, spawned, failed, fatal, lateTimeouts>>

\* StopRecording() returns at once: if (!recording) return;
StopRecordingNoop(r) == ~recording[r]

\* StopRecording() up to the join: stopFlag.store(true);
StopRecordingBegin(r) == stopFlag' = Set(stopFlag, r, TRUE)

\* StopRecording that does not wait for the thread (detach instead of join)
Joinable_NoWait(r) == TRUE

\* the join of StopRecording() can return: the thread is not joinable or
\* its function has returned
Joinable(r) == tpc[r] \in {"none", "done"}

\* a StopRecording that resets recording and leaves the thread unjoined
StopRecordingJoin_NoJoin(r) ==
    /\ tpc' = tpc
    /\ recording' = Set(recording, r, FALSE)
    /\ stopped' = Set(stopped, r, TRUE)

\* StopRecording() from the join on:
\* if (recordingThread.joinable()) recordingThread.join(); recording = false;
StopRecordingJoin(r) ==
    /\ tpc' = Set(tpc, r, IF tpc[r] = "done" THEN "none" ELSE tpc[r])
    /\ recording' = Set(recording, r, FALSE)
    /\ stopped' = Set(stopped, r, TRUE)

\* Cleanup() after its StopRecording(): releases; waveFormat = nullptr;
\* initialized = false
CleanupRelease(r) ==
    /\ initialized' = Set(initialized, r, FALSE)
    /\ nChannels' = Set(nChannels, r, 0)

\* accessors that do not take the lock
LockGuard_None(r) == TRUE

\* std::lock_guard<std::mutex> lock(bufferMutex) of GetAudioData() and
\* ClearAudioData(): the call gets past it when the lock is free, and the
\* lock is released when the call returns
LockGuard(r) == bufferMutex[r] = "free"

\* a copy that returns the samples last to first
GetAudioData_Reversed(r) ==
    [i \in 1..Len(audioBuffer[r]) |-> audioBuffer[r][Len(audioBuffer[r]) + 1 - i]]

\* std::vector<float> GetAudioData(): copy under the lock
GetAudioData(r) == audioBuffer[r]

\* a clear that leaves the buffer as it is
ClearAudioData_Keeps(r) == audioBuffer' = audioBuffer

\* void ClearAudioData(): clear under the lock
ClearAudioData(r) == audioBuffer' = Set(audioBuffer, r, <<>>)

\* ---- AudioMixer
\* A float is written as the integer number of its hundredths: 1.0f is 100.
\* The samples and gains below are whole tenths, so that every product and
\* every halving the mixer computes on them is exact.
One == 100

Half == 50

Samples == {-150, -50, 0, 100}

Gains == {-200, 0, 70, 100}

Streams == UNION {[1..n -> Samples] : n \in 0..MaxLen}

\* x * y on floats
FMul(x, y) == (x * y) \div One

\* (std::min)(a, b): b < a ? b : a
FMin(a, b) == IF b < a THEN b ELSE a

\* (std::max)(a, b): a < b ? b : a
FMax(a, b) == IF a < b THEN b ELSE a

\* a mix that is stored as it is
Clamp_None(x) == x

\* (std::max)(-1.0f, (std::min)(1.0f, x))
Clamp(x) == FMax(-One, FMin(One, x))

\* MixMono that adds the streams without their gains
MixMono_NoGain(s1, s2, g1, g2) ==
    [i \in 1..FMax(Len(s1), Len(s2)) |->
        Clamp((IF i <= Len(s1) THEN s1[i] ELSE 0) + (IF i <= Len(s2) THEN s2[i] ELSE 0))]

\* static std::vector<float> MixMono(stream1, stream2, gain1, gain2)
MixMono(s1, s2, g1, g2) ==
    LET maxSize == FMax(Len(s1), Len(s2))
        sample1(i) == IF i <= Len(s1) THEN FMul(s1[i], g1) ELSE 0
        sample2(i) == IF i <= Len(s2) THEN FMul(s2[i], g2) ELSE 0
    IN  [i \in 1..maxSize |-> Clamp(sample1(i) + sample2(i))]

\* MixStereo with the two channels exchanged
MixStereo_Swapped(l, r) ==
    [k \in 1..(2 * FMax(Len(l), Len(r))) |->
        LET i == (k + 1) \div 2
        IN  IF k % 2 = 0 THEN (IF i <= Len(l) THEN l[i] ELSE 0)
                         ELSE (IF i <= Len(r) THEN r[i] ELSE 0)]

\* static std::vector<float> MixStereo(leftStream, rightStream): element k
\* (from 1) is result[k - 1]
MixStereo(l, r) ==
    LET maxSize == FMax(Len(l), Len(r))
    IN  [k \in 1..(2 * maxSize) |->
            LET i == (k + 1) \div 2
            IN  IF k % 2 = 1 THEN (IF i <= Len(l) THEN l[i] ELSE 0)
                             ELSE (IF i <= Len(r) THEN r[i] ELSE 0)]

\* StereoToMono that adds the channels without halving the sum
StereoToMono_Sum(st) ==
    [i \in 1..((Len(st) + 1) \div 2) |->
        st[2 * i - 1] + (IF 2 * i <= Len(st) THEN st[2 * i] ELSE 0)]

\* static std::vector<float> StereoToMono(stereoData)
StereoToMono(st) ==
    [i \in 1..((Len(st) + 1) \div 2) |->
        LET left == st[2 * i - 1]
            right == IF 2 * i <= Len(st) THEN st[2 * i] ELSE 0
        IN  FMul(left + right, Half)]

\* static std::vector<float> MonoToStereo(monoData)
MonoToStereo(m) == [k \in 1..(2 * Len(m)) |-> m[(k + 1) \div 2]]

\* ------------------------------------------------- recording sessions ----
IsSingle(m) == m \in {"LOOPBACK_ONLY", "MICROPHONE_ONLY"}

IsMixed(m) == m \in {"DUAL_STEREO", "DUAL_MONO"}

\* the recorders a session constructs
Sources(m) ==
    CASE m = "LOOPBACK_ONLY" -> {"loopback"}
      [] m = "MICROPHONE_ONLY" -> {"microphone"}
      [] OTHER -> Recorders

\* the recorder of record_wasapi_loopback / record_microphone_only
SingleRec(m) == IF m = "LOOPBACK_ONLY" THEN "loopback" ELSE "microphone"

\* separate writers that receive each other's source
SinkOf_Crossed(m, r) ==
    IF IsMixed(m) THEN "mixed"
    ELSE IF r = "loopback" THEN "microphone" ELSE "loopback"

\* the writer that receives the samples of source r
SinkOf(m, r) == IF IsMixed(m) THEN "mixed" ELSE r

\* the float32 value of a sample of the buffer: 0.0 for the zeros of a
\* silent packet, else a value that tells the source and the capture index
\* of the sample (multiples of 0.4, which the mixer halves and scales by
\* 0.7 exactly)
SampleValue(r, x) ==
    IF x = 0 THEN 0
    ELSE IF r = "microphone" THEN 80 * x - 40
    ELSE 80 * x

SampleValues(r, d) == [i \in 1..Len(d) |-> SampleValue(r, d[i])]

\* (loopbackChannels == 2) ? AudioMixer::StereoToMono(loopbackData) : loopbackData
ToMonoBlock(channels, blk) == IF channels = 2 THEN StereoToMono(blk) ELSE blk

ToMono(r, d) == ToMonoBlock(nChannels[r], SampleValues(r, d))

\* a stereo mix with the loopback on the left
MixedBlock_LoopbackLeft(m, micMono, loopbackMono) ==
    IF m = "DUAL_STEREO" THEN MixStereo(loopbackMono, micMono)
    ELSE MixMono(micMono, loopbackMono, 70, 70)

\* auto stereoMix = AudioMixer::MixStereo(micMono, loopbackMono);
\* auto monoMix = AudioMixer::MixMono(micMono, loopbackMono, 0.7f, 0.7f);
MixedBlock(m, micMono, loopbackMono) ==
    IF m = "DUAL_STEREO" THEN MixStereo(micMono, loopbackMono)
    ELSE MixMono(micMono, loopbackMono, 70, 70)

\* switch (opt.mode) of the drain loop of record_dual_audio: the block each
\* writer receives of the copies loopbackData and micData
DualBlocks(m, loopbackData, micData) ==
    IF IsMixed(m)
       THEN [k \in Sinks |->
               IF k = "mixed"
                  THEN MixedBlock(m, ToMono("microphone", micData),
                                  ToMono("loopback", loopbackData))
                  ELSE <<>>]
       ELSE [k \in Sinks |->
               IF k = SinkOf(m, "loopback") THEN SampleValues("loopback", loopbackData)
               ELSE IF k = SinkOf(m, "microphone") THEN SampleValues("microphone", micData)
               ELSE <<>>]

\* SimpleWAVWriter::close() / ~SimpleWAVWriter() on every writer
Closed(ss) == [k \in Sinks |-> IF ss[k] = "open" THEN "closed" ELSE ss[k]]

\* locals are destroyed in reverse order of construction: micRecorder
\* before loopbackRecorder in record_dual_audio
FirstDestroyed(m) == IF m = "LOOPBACK_ONLY" THEN "loopback" ELSE "microphone"

\* return code; with the writers closed by delete / destructor and the
\* recorder destructors still to run
Return(code, ss) ==
    /\ rc' = code
    /\ spc' = "dtor"
    /\ cur' = FirstDestroyed(mode)
    /\ sinkState' = Closed(ss)

\* record_wasapi_loopback / record_microphone_only: if (!recorder.Initialize()) return 1;
SingleInitialize ==
    /\ IsSingle(mode) /\ spc = "begin"
    /\ \E ok \in BOOLEAN, ch \in Channels :
          /\ Initialize(SingleRec(mode), ok, ch)
          /\ initRes' = Set(initRes, SingleRec(mode), IF ok THEN "ok" ELSE "failed")
          /\ IF ok THEN spc' = "open" /\ UNCHANGED <<rc, cur, sinkState>>
                   ELSE Return(1, sinkState)
    /\ UNCHANGED <<recording, stopFlag, tpc, bufVars, locVars, epVars, histVars,
                   mode, data, block, written, cliVars, inVars, fnVars>>

\* if (!wavWriter.open(opt.out_path, sampleRate, channels, 16)) return 2;
SingleOpen ==
    /\ IsSingle(mode) /\ spc = "open"
    /\ \E ok \in BOOLEAN :
          IF ok THEN /\ sinkState' = Set(sinkState, SingleRec(mode), "open")
                     /\ spc' = "start"
                     /\ UNCHANGED <<rc, cur>>
                ELSE Return(2, sinkState)
    /\ UNCHANGED <<recVars, bufVars, locVars, epVars, histVars,
                   mode, data, block, written, initRes, cliVars, inVars, fnVars>>

\* if (!recorder.StartRecording()) return 3;
SingleStart ==
    /\ IsSingle(mode) /\ spc = "start"
    /\ StartRecording(SingleRec(mode))
    /\ IF StartRecordingRet(SingleRec(mode))
          THEN spc' = "loop" /\ UNCHANGED <<rc, cur, sinkState>>
          ELSE Return(3, sinkState)
    /\ UNCHANGED <<initialized, nChannels, stopped, bufVars, locVars, epVars,
                   mode, data, block, written, initRes, cliVars, inVars, fnVars>>

\* while (now() < endTime) is left: recorder.StopRecording() comes next
SingleLoopExit ==
    /\ IsSingle(mode) /\ spc = "loop"
    /\ spc' = "stop"
    /\ cur' = SingleRec(mode)
    /\ UNCHANGED <<recVars, bufVars, locVars, epVars, histVars,
                   mode, data, block, sinkState, written, rc, initRes, cliVars, inVars, fnVars>>

\* auto audioData = recorder.GetAudioData();
\* if (!audioData.empty()) { ...; wavWriter.writeInt16(int16Data);
SingleGet ==
    /\ IsSingle(mode) /\ spc = "loop"
    /\ LockGuard(SingleRec(mode))
    /\ LET r == SingleRec(mode)
           d == GetAudioData(r)
       IN  IF d # <<>>
              THEN /\ data' = Set(data, r, d)
                   /\ block' = Set(block, r, SampleValues(r, d))
                   /\ written' = Set(written, r, written[r] \o d)
                   /\ spc' = "clear"
              ELSE UNCHANGED <<data, block, written, spc>>
    /\ UNCHANGED <<recVars, bufVars, locVars, epVars, histVars,
                   mode, cur, sinkState, rc, initRes, cliVars, inVars, fnVars>>

\* recorder.ClearAudioData(); } and the end of the loop body
SingleClear ==
    /\ IsSingle(mode) /\ spc = "clear"
    /\ LockGuard(SingleRec(mode))
    /\ ClearAudioData(SingleRec(mode))
    /\ data' = Set(data, SingleRec(mode), <<>>)
    /\ block' = [k \in Sinks |-> <<>>]
    /\ spc' = "loop"
    /\ UNCHANGED <<recVars, bufferMutex, appended, locVars, epVars, histVars,
                   mode, cur, sinkState, written, rc, initRes, cliVars, inVars, fnVars>>

\* record_dual_audio: if (!loopbackRecorder.Initialize()) return 1;
DualInitLoopback ==
    /\ ~IsSingle(mode) /\ spc = "begin"
    /\ \E ok \in BOOLEAN, ch \in Channels :
          /\ Initialize("loopback", ok, ch)
          /\ initRes' = Set(initRes, "loopback", IF ok THEN "ok" ELSE "failed")
          /\ IF ok THEN spc' = "init2" /\ UNCHANGED <<rc, cur, sinkState>>
                   ELSE Return(1, sinkState)
    /\ UNCHANGED <<recording, stopFlag, tpc, bufVars, locVars, epVars, histVars,
                   mode, data, block, written, cliVars, inVars, fnVars>>

\* record_dual_audio without the return after a failed micRecorder.Initialize()
DualInitMicrophone_NoReturn ==
    /\ ~IsSingle(mode) /\ spc = "init2"
    /\ \E ok \in BOOLEAN, ch \in Channels :
          /\ Initialize("microphone", ok, ch)
          /\ initRes' = Set(initRes, "microphone", IF ok THEN "ok" ELSE "failed")
          /\ spc' = "open"
          /\ UNCHANGED <<rc, cur, sinkState>>
    /\ UNCHANGED <<recording, stopFlag, tpc, bufVars, locVars, epVars, histVars,
                   mode, data, block, written, cliVars, inVars, fnVars>>

\* if (!micRecorder.Initialize()) return 1;
DualInitMicrophone ==
    /\ ~IsSingle(mode) /\ spc = "init2"
    /\ \E ok \in BOOLEAN, ch \in Channels :
          /\ Initialize("microphone", ok, ch)
          /\ initRes' = Set(initRes, "microphone", IF ok THEN "ok" ELSE "failed")
          /\ IF ok THEN spc' = "open" /\ UNCHANGED <<rc, cur, sinkState>>
                   ELSE Return(1, sinkState)
    /\ UNCHANGED <<recording, stopFlag, tpc, bufVars, locVars, epVars, histVars,
                   mode, data, block, written, cliVars, inVars, fnVars>>

\* switch (opt.mode): the writers are opened; a failure deletes them and
\* returns 2.  In DUAL_SEPARATE the second open is not tried when the
\* first fails (||).
DualOpen ==
    /\ ~IsSingle(mode) /\ spc = "open"
    /\ IF IsMixed(mode)
          THEN \E ok \in BOOLEAN :
                  IF ok THEN /\ sinkState' = Set(sinkState, "mixed", "open")
                             /\ spc' = "start"
                             /\ UNCHANGED <<rc, cur>>
                        ELSE Return(2, sinkState)
          ELSE \E okL \in BOOLEAN, okM \in BOOLEAN :
                  IF okL /\ okM
                     THEN /\ sinkState' = [sinkState EXCEPT !["loopback"] = "open",
                                                            !["microphone"] = "open"]
                          /\ spc' = "start"
                          /\ UNCHANGED <<rc, cur>>
                     ELSE Return(2, IF okL THEN Set(sinkState, "loopback", "open") ELSE sinkState)
    /\ UNCHANGED <<recVars, bufVars, locVars, epVars, histVars,
                   mode, data, block, written, initRes, cliVars, inVars, fnVars>>

\* if (!loopbackRecorder.StartRecording() || ...) { delete ...; return 3; }
DualStartLoopback ==
    /\ ~IsSingle(mode) /\ spc = "start"
    /\ StartRecording("loopback")
    /\ IF StartRecordingRet("loopback")
          THEN spc' = "start2" /\ UNCHANGED <<rc, cur, sinkState>>
          ELSE Return(3, sinkState)
    /\ UNCHANGED <<initialized, nChannels, stopped, bufVars, locVars, epVars,
                   mode, data, block, written, initRes, cliVars, inVars, fnVars>>

\* if (... || !micRecorder.StartRecording()) { delete ...; return 3; }
DualStartMicrophone ==
    /\ ~IsSingle(mode) /\ spc = "start2"
    /\ StartRecording("microphone")
    /\ IF StartRecordingRet("microphone")
          THEN spc' = "loop" /\ UNCHANGED <<rc, cur, sinkState>>
          ELSE Return(3, sinkState)
    /\ UNCHANGED <<initialized, nChannels, stopped, bufVars, locVars, epVars,
                   mode, data, block, written, initRes, cliVars, inVars, fnVars>>

\* while (now() < endTime) is left: loopbackRecorder.StopRecording() comes next
DualLoopExit ==
    /\ ~IsSingle(mode) /\ spc = "loop"
    /\ spc' = "stop"
    /\ cur' = "loopback"
    /\ UNCHANGED <<recVars, bufVars, locVars, epVars, histVars,
                   mode, data, block, sinkState, written, rc, initRes, cliVars, inVars, fnVars>>

\* auto loopbackData = loopbackRecorder.GetAudioData();
DualGetLoopback ==
    /\ ~IsSingle(mode) /\ spc = "loop"
    /\ LockGuard("loopback")
    /\ data' = Set(data, "loopback", GetAudioData("loopback"))
    /\ spc' = "get2"
    /\ UNCHANGED <<recVars, bufVars, locVars, epVars, histVars,
                   mode, cur, block, sinkState, written, rc, initRes, cliVars, inVars, fnVars>>

\* auto micData = micRecorder.GetAudioData();
\* if (!loopbackData.empty() || !micData.empty()) { switch (opt.mode) ...
\* every case hands the drained block of each source to its writer
DualGetMicrophone ==
    /\ ~IsSingle(mode) /\ spc = "get2"
    /\ LockGuard("microphone")
    /\ LET d == GetAudioData("microphone")
       IN  /\ data' = Set(data, "microphone", d)
           /\ IF data["loopback"] # <<>> \/ d # <<>>
                 THEN /\ written' = [written EXCEPT
                                        !["loopback"] = @ \o data["loopback"],
                                        !["microphone"] = @ \o d]
                      /\ block' = DualBlocks(mode, data["loopback"], d)
                      /\ spc' = "clear1"
                 ELSE /\ spc' = "loop"
                      /\ UNCHANGED <<written, block>>
    /\ UNCHANGED <<recVars, bufVars, locVars, epVars, histVars,
                   mode, cur, sinkState, rc, initRes, cliVars, inVars, fnVars>>

\* if (!loopbackData.empty()) loopbackRecorder.ClearAudioData();
DualClearLoopback ==
    /\ ~IsSingle(mode) /\ spc = "clear1"
    /\ IF data["loopback"] # <<>>
          THEN LockGuard("loopback") /\ ClearAudioData("loopback")
          ELSE UNCHANGED audioBuffer
    /\ spc' = "clear2"
    /\ UNCHANGED <<recVars, bufferMutex, appended, locVars, epVars, histVars,
                   mode, cur, data, block, sinkState, written, rc, initRes, cliVars, inVars, fnVars>>

\* if (!micData.empty()) micRecorder.ClearAudioData(); and the end of the
\* loop body
DualClearMicrophone ==
    /\ ~IsSingle(mode) /\ spc = "clear2"
    /\ IF data["microphone"] # <<>>
          THEN LockGuard("microphone") /\ ClearAudioData("microphone")
          ELSE UNCHANGED audioBuffer
    /\ data' = [r \in Recorders |-> <<>>]
    /\ block' = [k \in Sinks |-> <<>>]
    /\ spc' = "loop"
    /\ UNCHANGED <<recVars, bufferMutex, appended, locVars, epVars, histVars,
                   mode, cur, sinkState, written, rc, initRes, cliVars, inVars, fnVars>>

\* a teardown that closes the writers once the first recorder is stopped
AfterStopPc_CloseFirst(m, r) == "close"

\* position after recorder cur has been stopped: the microphone after the
\* loopback in record_dual_audio, else the close of the writers
AfterStopPc(m, r) == IF ~IsSingle(m) /\ r = "loopback" THEN "stop" ELSE "close"

AfterStopCur(m, r) == IF ~IsSingle(m) /\ r = "loopback" THEN "microphone" ELSE r

\* position after the destructor of recorder cur
AfterDtorPc(m, r) == IF ~IsSingle(m) /\ r = "microphone" THEN "dtor" ELSE "returned"

AfterDtorCur(m, r) == IF ~IsSingle(m) /\ r = "microphone" THEN "loopback" ELSE r

\* recorder.StopRecording() after the loop, up to the join
SessionStop ==
    /\ spc = "stop"
    /\ IF StopRecordingNoop(cur)
          THEN /\ spc' = AfterStopPc(mode, cur)
               /\ cur' = AfterStopCur(mode, cur)
               /\ UNCHANGED stopFlag
          ELSE /\ StopRecordingBegin(cur)
               /\ spc' = "join"
               /\ UNCHANGED cur
    /\ UNCHANGED <<initialized, recording, tpc, nChannels, bufVars, locVars, epVars, histVars,
                   mode, data, block, sinkState, written, rc, initRes, cliVars, inVars, fnVars>>

\* the join of StopRecording() returns, in the session (rc not yet set) or
\* in the destructor's Cleanup()
SessionJoin ==
    /\ spc = "join"
    /\ Joinable(cur)
    /\ StopRecordingJoin(cur)
    /\ IF rc = NoRc
          THEN /\ spc' = AfterStopPc(mode, cur)
               /\ cur' = AfterStopCur(mode, cur)
               /\ UNCHANGED <<initialized, nChannels>>
          ELSE /\ CleanupRelease(cur)
               /\ spc' = AfterDtorPc(mode, cur)
               /\ cur' = AfterDtorCur(mode, cur)
    /\ UNCHANGED <<stopFlag, bufVars, locVars, epVars, spawned, failed, fatal, lateTimeouts,
                   mode, data, block, sinkState, written, rc, initRes, cliVars, inVars, fnVars>>

\* wavWriter.close() / writer->close(); delete writer; ...; return 0;
SessionClose ==
    /\ spc = "close"
    /\ Return(0, sinkState)
    /\ UNCHANGED <<recVars, bufVars, locVars, epVars, histVars,
                   mode, data, block, written, initRes, cliVars, inVars, fnVars>>

\* ~WASAPILoopbackRecorder() / ~WASAPIMicrophoneRecorder(): Cleanup()
SessionDestroy ==
    /\ spc = "dtor"
    /\ IF StopRecordingNoop(cur)
          THEN /\ CleanupRelease(cur)
               /\ spc' = AfterDtorPc(mode, cur)
               /\ cur' = AfterDtorCur(mode, cur)
               /\ UNCHANGED stopFlag
          ELSE /\ StopRecordingBegin(cur)
               /\ spc' = "join"
               /\ UNCHANGED <<cur, initialized, nChannels>>
    /\ UNCHANGED <<recording, tpc, bufVars, locVars, epVars, histVars,
                   mode, data, block, sinkState, written, rc, initRes, cliVars, inVars, fnVars>>

\* the state of the session that its position tells: before the threads
\* are started, in the timed loop, in the teardown up to the close of the
\* writers, after the return value is set
SessionState ==
    IF rc # NoRc THEN "Stopped"
    ELSE IF spc \in {"begin", "init2", "open", "start", "start2"} THEN "Idle"
    ELSE IF spc \in {"loop", "get2", "clear", "clear1", "clear2"} THEN "Recording"
    ELSE "Draining"

Session ==
    \/ SingleInitialize \/ SingleOpen \/ SingleStart
    \/ SingleLoopExit \/ SingleGet \/ SingleClear
    \/ DualInitLoopback \/ DualInitMicrophone \/ DualOpen
    \/ DualStartLoopback \/ DualStartMicrophone
    \/ DualLoopExit \/ DualGetLoopback \/ DualGetMicrophone
    \/ DualClearLoopback \/ DualClearMicrophone
    \/ SessionStop \/ SessionJoin \/ SessionClose \/ SessionDestroy

\* both endpoints have the float32 mix format of a shared-mode endpoint
FloatEndpoints == mixFormat = [r \in Recorders |-> "float32"]

Init ==
    /\ RecorderInit
    /\ FloatEndpoints
    /\ FnIdle
    /\ mode \in CaptureMode
    /\ spc = "begin"

Next ==
    \/ Session
    \/ \E r \in Recorders : RecordingThreadFunc(r)
    \/ \E r \in Recorders : Deliver(r)

Spec == Init /\ [][Next]_vars

\* the sessions with one source: record_wasapi_loopback and
\* record_microphone_only
SingleSession ==
    \/ SingleInitialize \/ SingleOpen \/ SingleStart
    \/ SingleLoopExit \/ SingleGet \/ SingleClear
    \/ SessionStop \/ SessionJoin \/ SessionClose \/ SessionDestroy

SingleInit ==
    /\ RecorderInit
    /\ FloatEndpoints
    /\ FnIdle
    /\ mode \in {"LOOPBACK_ONLY", "MICROPHONE_ONLY"}
    /\ spc = "begin"

SingleNext ==
    \/ SingleSession
    \/ \E r \in Recorders : RecordingThreadFunc(r)
    \/ \E r \in Recorders : Deliver(r)

\* the sessions with one source on an endpoint of any mix format that
\* delivers packets of data, packets flagged silent and packets flagged
\* as a discontinuity
PacketInit ==
    /\ RecorderInit
    /\ \E f \in SampleFormats : mixFormat = [r \in Recorders |-> f]
    /\ FnIdle
    /\ mode \in {"LOOPBACK_ONLY", "MICROPHONE_ONLY"}
    /\ spc = "begin"

PacketNext ==
    \/ SingleNext
    \/ \E r \in Recorders : DeliverSilent(r)
    \/ \E r \in Recorders : DeliverDiscontinuity(r)

PacketSpec == PacketInit /\ [][PacketNext]_vars

\* the sessions with one source, the packets stored sample by sample
AppendNext ==
    \/ SingleNext
    \/ \E r \in Recorders : ThreadPushBack(r)

AppendSpec == SingleInit /\ [][AppendNext]_vars

\* WF: the OS schedules every live acquisition thread, and a join returns
\* once the thread function has returned.  Nothing is assumed of the
\* endpoint (it may never deliver) nor of the timer.
FairSpec ==
    /\ SingleInit /\ [][SingleNext]_vars
    /\ \A r \in Recorders : WF_vars(RecordingThreadFunc(r))
    /\ WF_vars(SessionJoin)

\* ------------------------------------------ failure of the output device ----
\* from now on std::ofstream::write fails in SimpleWAVWriter::writeInt16
\* (disk full, device removed); the stream keeps its error state
SinkBreaks ==
    /\ ~writeFault
    /\ SessionState = "Recording"
    /\ writeFault' = TRUE
    /\ UNCHANGED <<recVars, bufVars, locVars, epVars, histVars, sessVars, cliVars,
                   mixFormat, stopSignal, fnVars>>

SinkNext ==
    \/ Next
    \/ SinkBreaks

SinkSpec == Init /\ [][SinkNext]_vars

\* ------------------------------------------------ explicit stop signal ----
\* A stop of the session is requested from outside its loop while the
\* function has not returned (as KeyboardLoop does for the recorder of
\* record.cpp).  No function of main.cpp reads the request.
RequestStop ==
    /\ ~stopSignal
    /\ spc # "returned"
    /\ stopSignal' = TRUE
    /\ UNCHANGED <<recVars, bufVars, locVars, epVars, histVars, sessVars, cliVars,
                   mixFormat, writeFault, fnVars>>

StopNext ==
    \/ Next
    \/ RequestStop

\* the sessions of main.cpp with a stop request arriving at any time
StopSpec == Init /\ [][StopNext]_vars

\* ------------------------------------- arbitrary caller of a recorder ----
\* The caller is one thread (recording and the thread object are not
\* protected); it calls the public methods of either recorder in any order.
CanCall == spc = "client" /\ nCalls < MaxCalls

CallRet(op, r, ret) ==
    /\ call' = [op |-> op, rec |-> r, ret |-> ret]
    /\ nCalls' = nCalls + 1

\* the step in which the call of op on r returns
Returned(op, r) == nCalls' = nCalls + 1 /\ call'.op = op /\ call'.rec = r

ClientInitialize(r) ==
    /\ CanCall
    /\ ~initialized[r] /\ ~recording[r]
    /\ \E ok \in BOOLEAN, ch \in Channels :
          /\ Initialize(r, ok, ch)
          /\ CallRet("Initialize", r, IF ok THEN "true" ELSE "false")
    /\ UNCHANGED <<recording, stopFlag, tpc, bufVars, locVars, epVars, histVars, sessVars, inVars, fnVars>>

ClientStartRecording(r) ==
    /\ CanCall
    /\ StartRecording(r)
    /\ CallRet("StartRecording", r, IF StartRecordingRet(r) THEN "true" ELSE "false")
    /\ UNCHANGED <<initialized, nChannels, stopped, bufVars, locVars, epVars, sessVars, inVars, fnVars>>

ClientStopRecording(r) ==
    /\ CanCall
    /\ IF StopRecordingNoop(r)
          THEN /\ CallRet("StopRecording", r, "void")
               /\ UNCHANGED <<stopFlag, spc, cur>>
          ELSE /\ StopRecordingBegin(r)
               /\ spc' = "cjoin"
               /\ cur' = r
               /\ call' = [op |-> "StopRecording", rec |-> r, ret |-> "pending"]
               /\ UNCHANGED nCalls
    /\ UNCHANGED <<initialized, recording, tpc, nChannels, bufVars, locVars, epVars, histVars,
                   mode, data, block, sinkState, written, rc, initRes, inVars, fnVars>>

ClientCleanup(r) ==
    /\ CanCall
    /\ IF StopRecordingNoop(r)
          THEN /\ CleanupRelease(r)
               /\ CallRet("Cleanup", r, "void")
               /\ UNCHANGED <<stopFlag, spc, cur>>
          ELSE /\ StopRecordingBegin(r)
               /\ spc' = "cjoin"
               /\ cur' = r
               /\ call' = [op |-> "Cleanup", rec |-> r, ret |-> "pending"]
               /\ UNCHANGED <<nCalls, initialized, nChannels>>
    /\ UNCHANGED <<recording, tpc, bufVars, locVars, epVars, histVars,
                   mode, data, block, sinkState, written, rc, initRes, inVars, fnVars>>

\* the join inside StopRecording() returns and the pending call completes
ClientJoin ==
    /\ spc = "cjoin"
    /\ Joinable(cur)
    /\ StopRecordingJoin(cur)
    /\ IF call.op = "Cleanup" THEN CleanupRelease(cur) ELSE UNCHANGED <<initialized, nChannels>>
    /\ CallRet(call.op, cur, "void")
    /\ spc' = "client"
    /\ UNCHANGED <<stopFlag, bufVars, locVars, epVars, spawned, failed, fatal, lateTimeouts,
                   mode, cur, data, block, sinkState, written, rc, initRes, inVars, fnVars>>

Client ==
    \/ \E r \in Recorders : ClientInitialize(r)
    \/ \E r \in Recorders : ClientStartRecording(r)
    \/ \E r \in Recorders : ClientStopRecording(r)
    \/ \E r \in Recorders : ClientCleanup(r)
    \/ ClientJoin

RecInit ==
    /\ RecorderInit
    /\ FloatEndpoints
    /\ FnIdle
    /\ mode = "DUAL_SEPARATE"
    /\ spc = "client"

RecNext ==
    \/ Client
    \/ \E r \in Recorders : RecordingThreadFunc(r)
    \/ \E r \in Recorders : Deliver(r)

RecSpec == RecInit /\ [][RecNext]_vars

\* ------------------------------------------------ functions on their own ----
\* the program around a function that is checked on its own: nothing runs
ProgramIdle ==
    /\ RecorderInit
    /\ FloatEndpoints
    /\ mode = "MICROPHONE_ONLY"
    /\ spc = "fn"

\* ---- WASAPIMicrophoneRecorder::GetMicrophoneDevice
\* characters of friendly names and selectors: one letter in both cases
Chars == {"a", "A"}

Names == UNION {[1..n -> Chars] : n \in 0..MaxName}

\* an enumerated endpoint: its friendly name, or none that can be read
\* (Item, OpenPropertyStore or GetValue fails, or the value is no string)
Endpoints ==
    {[name |-> n, readable |-> TRUE] : n \in Names}
        \cup {[name |-> <<>>, readable |-> FALSE]}

\* deviceName.find(deviceSubstr) != std::string::npos without regard to case
Contains_IgnoreCase(name, sub) ==
    LET Lower(c) == IF c = "A" THEN "a" ELSE c
    IN  \E k \in 0..(Len(name) - Len(sub)) :
            \A j \in 1..Len(sub) : Lower(name[k + j]) = Lower(sub[j])

\* deviceName.find(deviceSubstr) != std::string::npos
Contains(name, sub) ==
    \E k \in 0..(Len(name) - Len(sub)) : SubSeq(name, k + 1, k + Len(sub)) = sub

\* for (UINT i = 0; i < count; i++): the index (from 1) of the endpoint the
\* loop returns with, 0 when it runs to its end
RECURSIVE FirstMatch(_, _, _)
FirstMatch(eps, sub, i) ==
    IF i > Len(eps) THEN 0
    ELSE IF eps[i].readable /\ Contains(eps[i].name, sub) THEN i
    ELSE FirstMatch(eps, sub, i + 1)

\* return enumerator->GetDefaultAudioEndpoint(eCapture, eConsole, &device);
DefaultEndpoint(ok) ==
    IF ok THEN [hr |-> "S_OK", dev |-> 0] ELSE [hr |-> "failed", dev |-> -1]

\* HRESULT GetMicrophoneDevice(): dev is the index of the endpoint taken
\* from the enumeration, 0 for the default capture endpoint
GetMicrophoneDevice(eps, sub, eOk, dOk) ==
    IF sub # <<>>
       THEN IF ~eOk THEN [hr |-> "failed", dev |-> -1]
            ELSE IF FirstMatch(eps, sub, 1) # 0
                    THEN [hr |-> "S_OK", dev |-> FirstMatch(eps, sub, 1)]
                    ELSE DefaultEndpoint(dOk)
       ELSE DefaultEndpoint(dOk)

DeviceInit ==
    /\ ProgramIdle
    /\ LaterIdle
    /\ MixerIdle
    /\ ConvIdle
    /\ deviceSubstr \in Names
    /\ endpoints \in UNION {[1..n -> Endpoints] : n \in 0..MaxEndpoints}
    /\ enumOk \in BOOLEAN
    /\ defaultOk \in BOOLEAN
    /\ device = NoDevice

CallGetMicrophoneDevice ==
    /\ device = NoDevice
    /\ device' = GetMicrophoneDevice(endpoints, deviceSubstr, enumOk, defaultOk)
    /\ UNCHANGED <<recVars, bufVars, locVars, epVars, histVars, sessVars, cliVars, inVars,
                   deviceSubstr, endpoints, enumOk, defaultOk, mixVars, convVars, laterVars>>

DeviceNext == CallGetMicrophoneDevice

DeviceSpec == DeviceInit /\ [][DeviceNext]_vars

\* ---- AudioMixer called on its own
\* the streams of the mixed-length scenario: constant 1.0, n samples
ConstantStream(n) == [i \in 1..n |-> One]

MixerInit ==
    /\ ProgramIdle
    /\ LaterIdle
    /\ DeviceIdle
    /\ ConvIdle
    /\ \/ /\ stream1 \in Streams
          /\ stream2 \in Streams
          /\ gain1 \in Gains
          /\ gain2 \in Gains
       \/ /\ stream1 = ConstantStream(1000)
          /\ stream2 = ConstantStream(1200)
          /\ gain1 = 70
          /\ gain2 = 70
    /\ result = <<>>
    /\ ops = <<>>

\* one call of f, which returns res
CallMixer(f, res) ==
    /\ result' = res
    /\ ops' = Append(ops, f)
    /\ UNCHANGED <<recVars, bufVars, locVars, epVars, histVars, sessVars, cliVars, inVars,
                   devVars, stream1, stream2, gain1, gain2, convVars, laterVars>>

CallMixMono == ops = <<>> /\ CallMixer("MixMono", MixMono(stream1, stream2, gain1, gain2))

CallMixStereo == ops = <<>> /\ CallMixer("MixStereo", MixStereo(stream1, stream2))

CallMonoToStereo == ops = <<>> /\ CallMixer("MonoToStereo", MonoToStereo(stream1))

\* StereoToMono of stream1, or of what MonoToStereo has returned
CallStereoToMono ==
    \/ ops = <<>> /\ CallMixer("StereoToMono", StereoToMono(stream1))
    \/ ops = <<"MonoToStereo">> /\ CallMixer("StereoToMono", StereoToMono(result))

MixerNext == CallMixMono \/ CallMixStereo \/ CallMonoToStereo \/ CallStereoToMono

MixerSpec == MixerInit /\ [][MixerNext]_vars

\* ---- sample conversions of the acquisition thread and of the drain loop
\* Here a float is written as the integer number of its 32768ths: 1.0f is
\* 32768.  int16Data[i] / 32768.0f and the clamp are exact in float32; the
\* product with 32767.0f is rounded to the 24 significant bits of a float32.
Int16 == -32768..32767

\* audioBuffer.push_back(int16Data[i] / 32768.0f)
Int16ToFloat(s) == s

\* the power of two q such that a float32 of magnitude m 32768ths is a
\* multiple of q 32768ths (1 while m has at most 24 bits)
RECURSIVE Grain(_, _)
Grain(m, q) == IF m \div 16777216 < q THEN q ELSE Grain(m, 2 * q)

\* the float32 nearest to p 32768ths, ties to even
RoundToFloat(p) ==
    LET m == IF p < 0 THEN -p ELSE p
        q == Grain(m, 1)
        lo == (m \div q) * q
        rest == m - lo
        up == \/ 2 * rest > q
              \/ 2 * rest = q /\ (lo \div q) % 2 = 1
        r == IF up THEN lo + q ELSE lo
    IN  IF p < 0 THEN -r ELSE r

\* static_cast<int16_t>(f): the fraction is discarded, toward zero
Truncate(p) == IF p < 0 THEN -((-p) \div 32768) ELSE p \div 32768

\* the conversion without the product with 32767.0f
FloatToInt16_Unscaled(f) == Truncate(FMax(-32768, FMin(32768, f)))

\* sample = (std::max)(-1.0f, (std::min)(1.0f, sample));
\* int16Data.push_back(static_cast<int16_t>(sample * 32767.0f));
FloatToInt16(f) ==
    LET clamped == FMax(-32768, FMin(32768, f))
    IN  Truncate(RoundToFloat(clamped * 32767))

ConvInit ==
    /\ ProgramIdle
    /\ LaterIdle
    /\ DeviceIdle
    /\ MixerIdle
    /\ int16Data \in Int16
    /\ sample = 0
    /\ int16Back = 0
    /\ convPc = "native"

\* the acquisition thread converts the native sample
ConvertToFloat ==
    /\ convPc = "native"
    /\ sample' = Int16ToFloat(int16Data)
    /\ convPc' = "float"
    /\ UNCHANGED <<recVars, bufVars, locVars, epVars, histVars, sessVars, cliVars, inVars,
                   devVars, mixVars, int16Data, int16Back, laterVars>>

\* the drain loop converts the sample for the WAV file
ConvertToInt16 ==
    /\ convPc = "float"
    /\ int16Back' = FloatToInt16(sample)
    /\ convPc' = "int16"
    /\ UNCHANGED <<recVars, bufVars, locVars, epVars, histVars, sessVars, cliVars, inVars,
                   devVars, mixVars, int16Data, sample, laterVars>>

ConvNext == ConvertToFloat \/ ConvertToInt16

ConvSpec == ConvInit /\ [][ConvNext]_vars

\* ---- capture formats and WAV headers (record_* functions)
\* sample rates and channel counts an endpoint's mix format can have
SampleRates == {44100, 48000}
ChannelCounts == {1, 2, 6}
WaveFormats == [nSamplesPerSec : SampleRates, nChannels : ChannelCounts]

\* GetAudioFormat: the recorder's own mix format
GetAudioFormat(r) == [sampleRate |-> waveFormat[r].nSamplesPerSec,
                      numChannels |-> waveFormat[r].nChannels]

\* record_dual_audio, DUAL_SEPARATE: outputSampleRate is the loopback's rate
\* and both writers are opened with it, each with its own channel count
OpenSeparate(lb, mic) ==
    LET outputSampleRate == lb.sampleRate
    IN  [k \in Sinks |->
            CASE k = "loopback" ->
                   [sampleRate |-> outputSampleRate, numChannels |-> lb.numChannels]
              [] k = "microphone" ->
                   [sampleRate |-> outputSampleRate, numChannels |-> mic.numChannels]
              [] OTHER -> NoHeader]

\* record_dual_audio, DUAL_STEREO and DUAL_MONO: one writer with
\* outputChannels = 2, set to 1 for DUAL_MONO
OpenMixed(m, lb) ==
    LET outputSampleRate == lb.sampleRate
        outputChannels == IF m = "DUAL_MONO" THEN 1 ELSE 2
    IN  [k \in Sinks |->
            IF k = "mixed"
            THEN [sampleRate |-> outputSampleRate, numChannels |-> outputChannels]
            ELSE NoHeader]

\* record_wasapi_loopback and record_microphone_only: the recorder's format
OpenSingle(r, fmt) == [k \in Sinks |-> IF k = r THEN fmt ELSE NoHeader]

\* the headers of the writers a session of mode m opens
OpenWriters(m) ==
    CASE m = "LOOPBACK_ONLY" -> OpenSingle("loopback", GetAudioFormat("loopback"))
      [] m = "MICROPHONE_ONLY" -> OpenSingle("microphone", GetAudioFormat("microphone"))
      [] m = "DUAL_SEPARATE" ->
           OpenSeparate(GetAudioFormat("loopback"), GetAudioFormat("microphone"))
      [] OTHER -> OpenMixed(m, GetAudioFormat("loopback"))

HeaderInit ==
    /\ ProgramIdle
    /\ FedIdle
    /\ PathIdle
    /\ ClampIdle
    /\ ComIdle
    /\ ResIdle
    /\ ArIdle
    /\ DeviceIdle
    /\ MixerIdle
    /\ ConvIdle
    /\ MonoIdle
    /\ waveFormat \in [Recorders -> WaveFormats]
    /\ openMode \in CaptureMode
    /\ header = [k \in Sinks |-> NoHeader]

\* the session opens its writers
Open ==
    /\ header = [k \in Sinks |-> NoHeader]
    /\ header' = OpenWriters(openMode)
    /\ UNCHANGED <<hdrRest, waveFormat, openMode>>

HeaderNext == Open

HeaderSpec == HeaderInit /\ [][HeaderNext]_vars

\* ---- the reduction to mono of the drain loop, on its own
\* channel counts of a mix format: mono, stereo, a four-channel endpoint
MixChannels == {1, 2, 4}

\* sample values whose channel averages are exact
FrameSamples == {-One, One}

\* the blocks of whole frames a drain can copy from a buffer of c channels
FrameBlocks(c) == UNION {[1..(c * f) -> FrameSamples] : f \in 1..MaxLen}

MonoInit ==
    /\ ProgramIdle
    /\ FedIdle
    /\ PathIdle
    /\ ClampIdle
    /\ ComIdle
    /\ ResIdle
    /\ ArIdle
    /\ DeviceIdle
    /\ MixerIdle
    /\ ConvIdle
    /\ HdrIdle
    /\ srcChannels \in MixChannels
    /\ srcBlock \in FrameBlocks(srcChannels)
    /\ mono = <<>>
    /\ monoPc = "drained"

\* loopbackMono / micMono of case DUAL_STEREO and case DUAL_MONO
Reduce ==
    /\ monoPc = "drained"
    /\ mono' = ToMonoBlock(srcChannels, srcBlock)
    /\ monoPc' = "reduced"
    /\ UNCHANGED <<monoRest, srcChannels, srcBlock>>

MonoNext == Reduce

MonoSpec == MonoInit /\ [][MonoNext]_vars

\* ---- AudioRecorder of record.cpp: one session of its main
RecordInit ==
    /\ ProgramIdle
    /\ FedIdle
    /\ PathIdle
    /\ ClampIdle
    /\ ComIdle
    /\ ResIdle
    /\ DeviceIdle
    /\ MixerIdle
    /\ ConvIdle
    /\ HdrIdle
    /\ MonoIdle
    /\ arRecording = FALSE
    /\ shouldStop = FALSE
    /\ mainPc = "start"
    /\ recPc = "none"
    /\ kbPc = "none"
    /\ client = "none"
    /\ hr = "S_OK"
    /\ arPacketLength = 0
    /\ resampled = FALSE
    /\ saved = 0
    /\ timer = FALSE
    /\ keyQ = FALSE

\* AudioRecorder::StartRecording
ArStartRecording ==
    /\ mainPc = "start"
    /\ arRecording' = TRUE
    /\ shouldStop' = FALSE
    /\ recPc' = "loop"
    /\ kbPc' = "loop"
    /\ mainPc' = "wait"
    /\ UNCHANGED <<arRest, client, hr, arPacketLength, resampled, saved, timer, keyQ>>

\* main: while (recorder.IsRecording()) sleep
ArWait ==
    /\ mainPc = "wait"
    /\ ~arRecording
    /\ mainPc' = "stop"
    /\ UNCHANGED <<arRest, arRecording, shouldStop, recPc, kbPc, client, hr,
                   arPacketLength, resampled, saved, timer, keyQ>>

\* AudioRecorder::StopRecording: the two flags
ArStopRecording ==
    /\ mainPc = "stop"
    /\ shouldStop' = TRUE
    /\ arRecording' = FALSE
    /\ mainPc' = "join_rec"
    /\ UNCHANGED <<arRest, recPc, kbPc, client, hr, arPacketLength, resampled,
                   saved, timer, keyQ>>

\* StopRecording with no join of the recording thread
ArJoinRecording_NoJoin ==
    /\ mainPc = "join_rec"
    /\ mainPc' = "join_kb"
    /\ UNCHANGED <<arRest, arRecording, shouldStop, recPc, kbPc, client, hr,
                   arPacketLength, resampled, saved, timer, keyQ>>

\* if (recordingThread.joinable()) recordingThread.join();
ArJoinRecording ==
    /\ mainPc = "join_rec"
    /\ recPc = "done"
    /\ recPc' = "joined"
    /\ mainPc' = "join_kb"
    /\ UNCHANGED <<arRest, arRecording, shouldStop, kbPc, client, hr,
                   arPacketLength, resampled, saved, timer, keyQ>>

\* if (keyboardThread.joinable()) keyboardThread.join();
ArJoinKeyboard ==
    /\ mainPc = "join_kb"
    /\ kbPc = "done"
    /\ kbPc' = "joined"
    /\ mainPc' = "save"
    /\ UNCHANGED <<arRest, arRecording, shouldStop, recPc, client, hr,
                   arPacketLength, resampled, saved, timer, keyQ>>

\* captureClient->Stop(); loopbackClient->Stop(); SaveToWAV();
ArSaveToWAV ==
    /\ mainPc = "save"
    /\ saved' = saved + 1
    /\ mainPc' = "done"
    /\ UNCHANGED <<arRest, arRecording, shouldStop, recPc, kbPc, client, hr,
                   arPacketLength, resampled, timer, keyQ>>

MainThread ==
    \/ ArStartRecording
    \/ ArWait
    \/ ArStopRecording
    \/ ArJoinRecording
    \/ ArJoinKeyboard
    \/ ArSaveToWAV

\* RecordingLoop: the test of the while and the test of the timer
RecordingLoopTest ==
    /\ recPc = "loop"
    /\ IF arRecording /\ ~shouldStop
       THEN IF timer
            THEN /\ shouldStop' = TRUE
                 /\ recPc' = "resample"
                 /\ UNCHANGED client
            ELSE /\ recPc' = "size"
                 /\ client' = "Microphone"
                 /\ UNCHANGED shouldStop
       ELSE /\ recPc' = "resample"
            /\ UNCHANGED <<shouldStop, client>>
    /\ UNCHANGED <<arRest, arRecording, mainPc, kbPc, hr, arPacketLength,
                   resampled, saved, timer, keyQ>>

\* where CaptureAudioData returns to: the second call, or the sleep and the
\* test of the while
AfterCapture(c) == IF c = "Microphone" THEN "size" ELSE "loop"

\* CaptureAudioData: hr = client->GetNextPacketSize(&packetLength) and the
\* test while (SUCCEEDED(hr) && packetLength > 0)
CaptureGetNextPacketSize ==
    /\ recPc = "size"
    /\ \E h \in {"S_OK", "failed"}, n \in {0, 1} :
        /\ hr' = h
        /\ arPacketLength' = n
        /\ IF h = "S_OK" /\ n > 0
           THEN /\ recPc' = "buffer"
                /\ UNCHANGED client
           ELSE /\ recPc' = AfterCapture(client)
                /\ client' = IF client = "Microphone" THEN "System" ELSE "none"
    /\ UNCHANGED <<arRest, arRecording, shouldStop, mainPc, kbPc, resampled,
                   saved, timer, keyQ>>

\* CaptureAudioData: hr = client->GetBuffer(...): the packet is stored and
\* released, or the failure is logged; GetNextPacketSize is called next
CaptureGetBuffer ==
    /\ recPc = "buffer"
    /\ \E h \in {"S_OK", "failed"} : hr' = h
    /\ recPc' = "size"
    /\ UNCHANGED <<arRest, arRecording, shouldStop, mainPc, kbPc, client,
                   arPacketLength, resampled, saved, timer, keyQ>>

\* RecordingLoop: ResampleAudio()
RecordingResample ==
    /\ recPc = "resample"
    /\ resampled' = TRUE
    /\ recPc' = "end"
    /\ UNCHANGED <<arRest, arRecording, shouldStop, mainPc, kbPc, client, hr,
                   arPacketLength, saved, timer, keyQ>>

\* RecordingLoop: recording = false; return
RecordingEnd ==
    /\ recPc = "end"
    /\ arRecording' = FALSE
    /\ recPc' = "done"
    /\ UNCHANGED <<arRest, shouldStop, mainPc, kbPc, client, hr,
                   arPacketLength, resampled, saved, timer, keyQ>>

RecordingLoop ==
    \/ RecordingLoopTest
    \/ CaptureGetNextPacketSize
    \/ CaptureGetBuffer
    \/ RecordingResample
    \/ RecordingEnd

\* KeyboardLoop: the loop ends with the flags
KeyboardLoopEnd ==
    /\ kbPc = "loop"
    /\ ~(arRecording /\ ~shouldStop)
    /\ kbPc' = "done"
    /\ UNCHANGED <<arRest, arRecording, shouldStop, mainPc, recPc, client, hr,
                   arPacketLength, resampled, saved, timer, keyQ>>

\* KeyboardLoop: _kbhit() and _getch() give 'q' or 'Q'
KeyboardLoopQuit ==
    /\ kbPc = "loop"
    /\ arRecording /\ ~shouldStop
    /\ keyQ
    /\ keyQ' = FALSE
    /\ shouldStop' = TRUE
    /\ kbPc' = "done"
    /\ UNCHANGED <<arRest, arRecording, mainPc, recPc, client, hr,
                   arPacketLength, resampled, saved, timer>>

KeyboardLoop == KeyboardLoopEnd \/ KeyboardLoopQuit

\* the recording time is over
TimerExpires ==
    /\ mainPc = "wait"
    /\ ~timer
    /\ timer' = TRUE
    /\ UNCHANGED <<arRest, arRecording, shouldStop, mainPc, recPc, kbPc, client,
                   hr, arPacketLength, resampled, saved, keyQ>>

\* the user types 'q'
PressQ ==
    /\ mainPc = "wait"
    /\ ~keyQ
    /\ keyQ' = TRUE
    /\ UNCHANGED <<arRest, arRecording, shouldStop, mainPc, recPc, kbPc, client,
                   hr, arPacketLength, resampled, saved, timer>>

RecordNext ==
    \/ MainThread
    \/ RecordingLoop
    \/ KeyboardLoop
    \/ TimerExpires
    \/ PressQ

\* every thread that can take a step takes one; the endpoints answer what
\* they like
RecordSpec ==
    /\ RecordInit
    /\ [][RecordNext]_vars
    /\ WF_vars(MainThread)
    /\ WF_vars(RecordingLoop)
    /\ WF_vars(KeyboardLoop)

\* ---- AudioRecorder::Initialize and Cleanup (record.cpp)
\* the calls of Initialize that can fail, in order, with the member each one
\* sets ("none": the call hands out nothing)
InitializeSteps ==
    << "deviceEnumerator", "defaultRenderDevice", "defaultCaptureDevice",
       "loopbackClient", "captureClient", "microphoneWaveFormatNative",
       "systemWaveFormatNative", "microphoneWaveFormat", "systemWaveFormat",
       "none", "none", "captureClientInterface", "loopbackCaptureClient",
       "none", "none", "microphoneSrcState", "systemSrcState" >>

\* the if blocks of Cleanup, in order
CleanupSteps ==
    << "microphoneSrcState", "systemSrcState", "microphoneWaveFormat",
       "systemWaveFormat", "microphoneWaveFormatNative", "systemWaveFormatNative",
       "captureClientInterface", "loopbackCaptureClient", "captureClient",
       "loopbackClient", "defaultCaptureDevice", "defaultRenderDevice",
       "deviceEnumerator" >>

Resources == {CleanupSteps[i] : i \in 1..Len(CleanupSteps)}

ResourceInit ==
    /\ ProgramIdle
    /\ FedIdle
    /\ PathIdle
    /\ ClampIdle
    /\ ComIdle
    /\ DeviceIdle
    /\ MixerIdle
    /\ ConvIdle
    /\ HdrIdle
    /\ MonoIdle
    /\ ArIdle
    /\ resPc = [fn |-> "Initialize", at |-> 1]
    /\ resPtr = [r \in Resources |-> FALSE]
    /\ resAcquired = [r \in Resources |-> 0]
    /\ resReleased = [r \in Resources |-> 0]

\* what a failing call of Initialize frees before its return, and which of
\* the members it sets to nullptr
\* if (!systemWaveFormat) { CoTaskMemFree(microphoneWaveFormat); return ...; }
\* every other failure returns at once
FailureFrees(res) ==
    IF res = "systemWaveFormat"
    THEN [free |-> {"microphoneWaveFormat"}, null |-> {}]
    ELSE [free |-> {}, null |-> {}]

\* one call of Initialize succeeds
InitializeCall ==
    /\ resPc.fn = "Initialize"
    /\ resPc.at <= Len(InitializeSteps)
    /\ LET res == InitializeSteps[resPc.at]
       IN  /\ resPtr' = IF res = "none" THEN resPtr ELSE [resPtr EXCEPT ![res] = TRUE]
           /\ resAcquired' = IF res = "none" THEN resAcquired
                             ELSE [resAcquired EXCEPT ![res] = @ + 1]
    /\ resPc' = [resPc EXCEPT !.at = @ + 1]
    /\ UNCHANGED <<resRest, resReleased>>

\* one call of Initialize fails: return hr
InitializeFails ==
    /\ resPc.fn = "Initialize"
    /\ resPc.at <= Len(InitializeSteps)
    /\ LET f == FailureFrees(InitializeSteps[resPc.at])
       IN  /\ resReleased' = [r \in Resources |->
                                 resReleased[r] + (IF r \in f.free THEN 1 ELSE 0)]
           /\ resPtr' = [r \in Resources |-> resPtr[r] /\ r \notin f.null]
    /\ resPc' = [fn |-> "Cleanup", at |-> 1]
    /\ UNCHANGED <<resRest, resAcquired>>

\* return S_OK; the recorder is used and destroyed
InitializeReturns ==
    /\ resPc.fn = "Initialize"
    /\ resPc.at = Len(InitializeSteps) + 1
    /\ resPc' = [fn |-> "Cleanup", at |-> 1]
    /\ UNCHANGED <<resRest, resPtr, resAcquired, resReleased>>

\* ~AudioRecorder: one if block of Cleanup
CleanupBlock ==
    /\ resPc.fn = "Cleanup"
    /\ resPc.at <= Len(CleanupSteps)
    /\ LET res == CleanupSteps[resPc.at]
       IN  /\ resReleased' = IF resPtr[res] THEN [resReleased EXCEPT ![res] = @ + 1]
                             ELSE resReleased
           /\ resPtr' = [resPtr EXCEPT ![res] = FALSE]
    /\ resPc' = IF resPc.at = Len(CleanupSteps)
                THEN [fn |-> "destroyed", at |-> 0]
                ELSE [resPc EXCEPT !.at = @ + 1]
    /\ UNCHANGED <<resRest, resAcquired>>

ResourceNext ==
    \/ InitializeCall
    \/ InitializeFails
    \/ InitializeReturns
    \/ CleanupBlock

ResourceSpec == ResourceInit /\ [][ResourceNext]_vars

\* ---- COM initialization and release of the WASAPI recorders (main.cpp)
\* the steps of Initialize after InitializeCOM, in order
ComSteps == << "CreateDeviceEnumerator", "GetDevice", "ActivateAudioClient",
               "GetMixFormat", "InitializeAudioClient", "GetCaptureClient" >>

ComInit ==
    /\ ProgramIdle
    /\ FedIdle
    /\ PathIdle
    /\ ClampIdle
    /\ DeviceIdle
    /\ MixerIdle
    /\ ConvIdle
    /\ HdrIdle
    /\ MonoIdle
    /\ ArIdle
    /\ ResIdle
    /\ comRec \in Recorders
    /\ comPc = [fn |-> "InitializeCOM", at |-> 0]
    /\ comInitialized = FALSE
    /\ comInits = 0
    /\ comUninits = 0
    /\ comHr = "none"
    /\ comPath = "none"

\* hr = InitializeCOM(): CoInitializeEx returns S_OK, S_FALSE (the thread
\* was initialized before; to be balanced as well) or a failure
ComInitializeCOM ==
    /\ comPc.fn = "InitializeCOM"
    /\ \E h \in {"S_OK", "S_FALSE", "failed"} :
        /\ comHr' = h
        /\ IF h = "failed"
           THEN /\ comPc' = [fn |-> "owner", at |-> 0]
                /\ comPath' = "InitializeCOM"
                /\ UNCHANGED comInits
           ELSE /\ comPc' = [fn |-> "Initialize", at |-> 1]
                /\ comInits' = comInits + 1
                /\ UNCHANGED comPath
    /\ UNCHANGED <<comRest, comRec, comInitialized, comUninits>>

\* if (initialized) { CleanupCOM(); initialized = false; } at the end of
\* Cleanup, as the number of calls of CoUninitialize
CleanupCOMCalls(init) == IF init THEN 1 ELSE 0

\* a step of Initialize succeeds; after the last one initialized = true
ComStepOk ==
    /\ comPc.fn = "Initialize"
    /\ IF comPc.at = Len(ComSteps)
       THEN /\ comInitialized' = TRUE
            /\ comPath' = "true"
            /\ comPc' = [fn |-> "owner", at |-> 0]
       ELSE /\ comPc' = [comPc EXCEPT !.at = @ + 1]
            /\ UNCHANGED <<comInitialized, comPath>>
    /\ UNCHANGED <<comRest, comRec, comInits, comUninits, comHr>>

\* a step of Initialize fails: CleanupCOM() after CreateDeviceEnumerator,
\* Cleanup() after every later step; return false
ComStepFails ==
    /\ comPc.fn = "Initialize"
    /\ comUninits' = comUninits + (IF ComSteps[comPc.at] = "CreateDeviceEnumerator"
                                   THEN 1 ELSE CleanupCOMCalls(comInitialized))
    /\ comInitialized' = (ComSteps[comPc.at] = "CreateDeviceEnumerator" /\ comInitialized)
    /\ comPath' = ComSteps[comPc.at]
    /\ comPc' = [fn |-> "owner", at |-> 0]
    /\ UNCHANGED <<comRest, comRec, comInits, comHr>>

\* the owner calls Cleanup
ComCleanup ==
    /\ comPc.fn = "owner"
    /\ comPc.at < MaxCleanups
    /\ comUninits' = comUninits + CleanupCOMCalls(comInitialized)
    /\ comInitialized' = FALSE
    /\ comPc' = [comPc EXCEPT !.at = @ + 1]
    /\ UNCHANGED <<comRest, comRec, comInits, comHr, comPath>>

\* ~WASAPILoopbackRecorder / ~WASAPIMicrophoneRecorder: Cleanup
ComDestroy ==
    /\ comPc.fn = "owner"
    /\ comUninits' = comUninits + CleanupCOMCalls(comInitialized)
    /\ comInitialized' = FALSE
    /\ comPc' = [fn |-> "destroyed", at |-> comPc.at]
    /\ UNCHANGED <<comRest, comRec, comInits, comHr, comPath>>

ComNext ==
    \/ ComInitializeCOM
    \/ ComStepOk
    \/ ComStepFails
    \/ ComCleanup
    \/ ComDestroy

ComSpec == ComInit /\ [][ComNext]_vars

\* ---- the float-to-int16 step of the drain loops and of ResampleBuffer
\* stands for +inf, as its negation does for -inf: these are only compared
Infinity == 2147483647

\* floats in 32768ths: a grid from -2.5 to 2.5, the neighbours of 1.0 and
\* -1.0, the infinities
FiniteFloats ==
    {k * 2048 : k \in -40..40} \cup {-32769, -32767, 32767, 32769}
        \cup {-Infinity, Infinity}

\* what a float endpoint can put into audioBuffer: any float, NaN included
BufferFloats == {[nan |-> FALSE, v |-> x] : x \in FiniteFloats}
                    \cup {[nan |-> TRUE, v |-> 0]}

\* a clamp to [-2.0, 2.0]
ClampSample_Wide(x) ==
    IF x.nan THEN 32768 ELSE FMax(-65536, FMin(65536, x.v))

\* sample = (std::max)(-1.0f, (std::min)(1.0f, sample)); for a NaN sample
\* the test sample < 1.0f of std::min is false and 1.0f is returned
ClampSample(x) ==
    IF x.nan THEN 32768 ELSE FMax(-32768, FMin(32768, x.v))

\* record.cpp: if (sample > 1.0f) sample = 1.0f;
\*             if (sample < -1.0f) sample = -1.0f;
ClampIf(v) ==
    LET upper == IF v > 32768 THEN 32768 ELSE v
    IN  IF upper < -32768 THEN -32768 ELSE upper

\* static_cast<int16_t>(sample * 32767.0f)
ScaleToInt16(c) == Truncate(RoundToFloat(c * 32767))

\* the sample as the loop of fPath p turns it into an int16_t
ClampedInt16(p, x) ==
    IF p = "drain" THEN ScaleToInt16(ClampSample(x)) ELSE ScaleToInt16(ClampIf(x.v))

\* the drain loops read floats of the endpoint; ResampleBuffer reads the
\* output of src_process on samples made of int16_t, which are finite
ClampInit ==
    /\ ProgramIdle
    /\ FedIdle
    /\ PathIdle
    /\ DeviceIdle
    /\ MixerIdle
    /\ ConvIdle
    /\ HdrIdle
    /\ MonoIdle
    /\ ArIdle
    /\ ResIdle
    /\ ComIdle
    /\ fPath \in {"drain", "resample"}
    /\ fIn \in BufferFloats
    /\ fPath = "resample" => ~fIn.nan
    /\ fOut = 0
    /\ clampPc = "float"

\* one turn of the conversion loop
ClampAndScale ==
    /\ clampPc = "float"
    /\ fOut' = ClampedInt16(fPath, fIn)
    /\ clampPc' = "int16"
    /\ UNCHANGED <<clampRest, fIn, fPath>>

ClampNext == ClampAndScale

ClampSpec == ClampInit /\ [][ClampNext]_vars

\* ---- the output path: record_* functions and main
\* characters of a path: a letter and the dot
PathChars == {"m", "."}

OutPaths == UNION {[1..n -> PathChars] : n \in 1..MaxPath}

\* opt.out_path.find_last_of('.') as the number of characters before the last
\* dot; npos (no dot) makes substr return the whole string
RECURSIVE FindLastOf(_, _)
FindLastOf(p, i) ==
    IF i = 0 THEN Len(p)
    ELSE IF p[i] = "." THEN i - 1 ELSE FindLastOf(p, i - 1)

\* opt.out_path.substr(0, opt.out_path.find_last_of('.')) + suffix
WithSuffix(p, suffix) == SubSeq(p, 1, FindLastOf(p, Len(p))) \o <<suffix>>

\* the paths a session of mode m opens its writers on, in the order of the
\* calls of open
OpenedPaths(m, p) ==
    IF m = "DUAL_SEPARATE"
    THEN <<WithSuffix(p, "_loopback.wav"), WithSuffix(p, "_microphone.wav")>>
    ELSE <<p>>

PathInit ==
    /\ ProgramIdle
    /\ FedIdle
    /\ DeviceIdle
    /\ MixerIdle
    /\ ConvIdle
    /\ HdrIdle
    /\ MonoIdle
    /\ ArIdle
    /\ ResIdle
    /\ ComIdle
    /\ ClampIdle
    /\ outPath \in OutPaths
    /\ pathMode \in CaptureMode
    /\ files = {}
    /\ pathRc = NoRc
    /\ readPath = <<>>

\* the first n paths of a sequence of paths, as a set
Opened(ps, n) == {ps[i] : i \in 1..n}

\* rc = record_*(rec_opt): 0 with every writer opened; 1 (Initialize failed)
\* before any open; 2 when an open fails, the writers before it opened;
\* 3 (StartRecording failed) with every writer opened
RecordReturns ==
    /\ pathRc = NoRc
    /\ LET ps == OpenedPaths(pathMode, outPath)
       IN  \E ret \in 0..3 :
             /\ pathRc' = ret
             /\ \E n \in 0..Len(ps) :
                   /\ ret \in {0, 3} => n = Len(ps)
                   /\ ret = 1 => n = 0
                   /\ ret = 2 => n < Len(ps)
                   /\ files' = files \cup Opened(ps, n)
    /\ UNCHANGED <<pathRest, outPath, pathMode, readPath>>

\* main: if (rc != 0) return 1; transcribe_whisper_tdrz(model_path, rec_opt.out_path, ...)
Transcribe ==
    /\ pathRc = 0
    /\ readPath = <<>>
    /\ readPath' = outPath
    /\ UNCHANGED <<pathRest, outPath, pathMode, files, pathRc>>

PathNext == RecordReturns \/ Transcribe

PathSpec == PathInit /\ [][PathNext]_vars

\* ---- the two RecordingThreadFunc of main.cpp, each as a function of the
\* results it is given
\* what the next call of the loop returns and what the next read of stopFlag
\* gives: [hr, wait, stop, frames, silent, gap]
Results ==
    [hr : {"S_OK", "failed"},
     wait : {"WAIT_OBJECT_0", "WAIT_TIMEOUT", "WAIT_FAILED"},
     stop : BOOLEAN,
     frames : 0..1,
     silent : BOOLEAN,
     gap : BOOLEAN]

\* n samples of a packet: 0.0f for a silent one, 1 for a sample of data
Zeros(n) == [i \in 1..n |-> 0]
Data(n) == [i \in 1..n |-> 1]

\* the three conversions, the same text in both loops: a format that is
\* neither float nor 16 nor 32 bits appends nothing
ConvertedSamples(fmt, n) ==
    IF fmt \in {"float32", "int16", "int32"} THEN Data(n) ELSE <<>>

\* loopback, if (framesAvailable > 0) { if (flags & SILENT) { sampleCount;
\* lock; insert zeros } else { sampleCount; lock; conversions } if (flags &
\* DATA_DISCONTINUITY) log }
LoopbackAppend(buf, x, fmt, ch) ==
    IF x.frames > 0
    THEN IF x.silent
         THEN LET sampleCount == x.frames * ch IN buf \o Zeros(sampleCount)
         ELSE LET sampleCount == x.frames * ch
              IN  buf \o ConvertedSamples(fmt, sampleCount)
    ELSE buf

\* a microphone loop that skips the silent packets
MicrophoneAppend_SkipsSilent(buf, x, fmt, ch) ==
    IF x.frames > 0 /\ ~x.silent
    THEN buf \o ConvertedSamples(fmt, x.frames * ch)
    ELSE buf

\* microphone, if (framesAvailable > 0) { sampleCount; lock; if (flags &
\* SILENT) insert zeros else conversions }
MicrophoneAppend(buf, x, fmt, ch) ==
    IF x.frames > 0
    THEN LET sampleCount == x.frames * ch
         IN  IF x.silent THEN buf \o Zeros(sampleCount)
             ELSE buf \o ConvertedSamples(fmt, sampleCount)
    ELSE buf

\* WASAPILoopbackRecorder::RecordingThreadFunc: one statement, given the
\* result x of its call or of its read of stopFlag
LoopbackStep(t, x, fmt, ch) ==
    CASE t.pc = "Start" ->
           [t EXCEPT !.pc = IF x.hr = "failed" THEN "returned" ELSE "while"]
      [] t.pc = "while" ->
           [t EXCEPT !.pc = IF x.stop THEN "Stop" ELSE "WaitForSingleObject"]
      [] t.pc = "WaitForSingleObject" ->
           [t EXCEPT !.pc = IF x.wait = "WAIT_TIMEOUT" THEN "while"
                            ELSE IF x.wait # "WAIT_OBJECT_0" THEN "Stop"
                            ELSE "if stopFlag"]
      [] t.pc = "if stopFlag" ->
           [t EXCEPT !.pc = IF x.stop THEN "Stop" ELSE "GetNextPacketSize"]
      [] t.pc = "GetNextPacketSize" ->
           IF x.hr = "failed" THEN [t EXCEPT !.pc = "Stop"]
           ELSE [t EXCEPT !.packetLength = x.frames,
                          !.pc = IF x.frames # 0 THEN "GetBuffer" ELSE "while"]
      [] t.pc = "GetBuffer" ->
           IF x.hr = "failed" THEN [t EXCEPT !.pc = "while"]
           ELSE [t EXCEPT !.audioBuffer = LoopbackAppend(t.audioBuffer, x, fmt, ch),
                          !.pc = "ReleaseBuffer"]
      [] t.pc = "ReleaseBuffer" ->
           [t EXCEPT !.pc = IF x.hr = "failed" THEN "while" ELSE "GetNextPacketSize 2"]
      [] t.pc = "GetNextPacketSize 2" ->
           IF x.hr = "failed" THEN [t EXCEPT !.pc = "while"]
           ELSE [t EXCEPT !.packetLength = x.frames,
                          !.pc = IF x.frames # 0 THEN "GetBuffer" ELSE "while"]
      [] t.pc = "Stop" -> [t EXCEPT !.pc = "finished"]
      [] OTHER -> t

\* WASAPIMicrophoneRecorder::RecordingThreadFunc, in the same way
MicrophoneStep(t, x, fmt, ch) ==
    CASE t.pc = "Start" ->
           [t EXCEPT !.pc = IF x.hr = "failed" THEN "returned" ELSE "while"]
      [] t.pc = "while" ->
           [t EXCEPT !.pc = IF x.stop THEN "Stop" ELSE "WaitForSingleObject"]
      [] t.pc = "WaitForSingleObject" ->
           [t EXCEPT !.pc = IF x.wait = "WAIT_TIMEOUT" THEN "while"
                            ELSE IF x.wait # "WAIT_OBJECT_0" THEN "Stop"
                            ELSE "if stopFlag"]
      [] t.pc = "if stopFlag" ->
           [t EXCEPT !.pc = IF x.stop THEN "Stop" ELSE "GetNextPacketSize"]
      [] t.pc = "GetNextPacketSize" ->
           IF x.hr = "failed" THEN [t EXCEPT !.pc = "Stop"]
           ELSE [t EXCEPT !.packetLength = x.frames,
                          !.pc = IF x.frames # 0 THEN "GetBuffer" ELSE "while"]
      [] t.pc = "GetBuffer" ->
           IF x.hr = "failed" THEN [t EXCEPT !.pc = "while"]
           ELSE [t EXCEPT !.audioBuffer = MicrophoneAppend(t.audioBuffer, x, fmt, ch),
                          !.pc = "ReleaseBuffer"]
      [] t.pc = "ReleaseBuffer" ->
           [t EXCEPT !.pc = IF x.hr = "failed" THEN "while" ELSE "GetNextPacketSize 2"]
      [] t.pc = "GetNextPacketSize 2" ->
           IF x.hr = "failed" THEN [t EXCEPT !.pc = "while"]
           ELSE [t EXCEPT !.packetLength = x.frames,
                          !.pc = IF x.frames # 0 THEN "GetBuffer" ELSE "while"]
      [] t.pc = "Stop" -> [t EXCEPT !.pc = "finished"]
      [] OTHER -> t

FedInit ==
    /\ ProgramIdle
    /\ DeviceIdle
    /\ MixerIdle
    /\ ConvIdle
    /\ HdrIdle
    /\ MonoIdle
    /\ ArIdle
    /\ ResIdle
    /\ ComIdle
    /\ ClampIdle
    /\ PathIdle
    /\ lbThread = [pc |-> "Start", packetLength |-> 0, audioBuffer |-> <<>>]
    /\ micThread = [pc |-> "Start", packetLength |-> 0, audioBuffer |-> <<>>]
    /\ fedFormat \in SampleFormats
    /\ fedChannels \in Channels

\* both loops execute their next statement and are given the same result
FedStep ==
    /\ lbThread.pc \notin {"returned", "finished"}
    /\ \E x \in Results :
        /\ Len(lbThread.audioBuffer) + x.frames * fedChannels <= MaxSamples
        /\ lbThread' = LoopbackStep(lbThread, x, fedFormat, fedChannels)
        /\ micThread' = MicrophoneStep(micThread, x, fedFormat, fedChannels)
    /\ UNCHANGED <<fedRest, fedFormat, fedChannels>>

FedNext == FedStep

FedSpec == FedInit /\ [][FedNext]_vars

\* ============================================================ claims ====

\* C1: for one source, under every interleaving of the acquisition thread's
\* appends with the session's GetAudioData / ClearAudioData, whenever the
\* session is between two drain cycles the number of samples appended so far
\* equals the number handed to the sink plus the number still in the buffer.
C1_NoSampleLostOrDuplicated ==
    spc = "loop" =>
        \A r \in Sources(mode) : appended[r] = Len(written[r]) + Len(audioBuffer[r])

\* C2: when a session has ended on timer expiry (threads joined, sink
\* closed, return 0), every sample appended by an acquisition thread has
\* been written to the sink.
C2_FinalDrainBeforeClose ==
    rc = 0 => \A r \in Sources(mode) : Len(written[r]) = appended[r]

\* C3: a StartRecording call returns false and changes nothing of the
\* recorders, spawning no thread, when the recorder is not initialized or
\* is already recording; otherwise it clears the stop flag, spawns exactly
\* one thread and returns true.
C3_StartRecording ==
    [][\A r \in Recorders :
          Returned("StartRecording", r) =>
             IF ~initialized[r] \/ recording[r]
                THEN /\ call'.ret = "false"
                     /\ UNCHANGED <<recVars, bufVars, locVars, epVars, histVars>>
                ELSE /\ call'.ret = "true"
                     /\ stopFlag'[r] = FALSE
                     /\ recording'[r]
                     /\ tpc[r] = "none" /\ tpc'[r] = "start"
                     /\ spawned'[r] = spawned[r] + 1
                     /\ \A q \in Recorders \ {r} : spawned'[q] = spawned[q] /\ tpc'[q] = tpc[q]
      ]_vars

\* the already-recording case of C3 has happened
C3_Witness ==
    /\ call.op = "StartRecording" /\ call.ret = "false"
    /\ initialized[call.rec] /\ recording[call.rec]
    /\ spawned[call.rec] = 1

\* C4: a StopRecording call on a recorder that is not recording changes
\* nothing; when a StopRecording call returns, the recorder is not recording
\* and its thread has been joined (so a second call in a row is such a
\* no-op); and the buffer of a recorder that is not recording never grows.
C4_StopRecordingIdempotent ==
    [][\A r \in Recorders :
          /\ (Returned("StopRecording", r) /\ ~recording[r]) =>
                 UNCHANGED <<recVars, bufVars, locVars, epVars, histVars>>
          /\ Returned("StopRecording", r) => (~recording'[r] /\ tpc'[r] = "none")
          /\ ~recording[r] => audioBuffer'[r] = audioBuffer[r]
      ]_vars

\* a StopRecording call made while recording has returned after the thread
\* had appended samples
C4_Witness ==
    /\ call.op = "StopRecording" /\ call.ret = "void"
    /\ stopped[call.rec] /\ ~recording[call.rec]
    /\ appended[call.rec] > 0

\* C5 as stated: once StopRecording has completed on a recorder, every
\* later StartRecording on it returns false and spawns no thread.
C5_StoppedIsTerminal ==
    [][\A r \in Recorders :
          (Returned("StartRecording", r) /\ stopped[r]) =>
              (call'.ret = "false" /\ spawned'[r] = spawned[r])
      ]_vars

\* C5 amended: StopRecording leaves the recorder initialized and not
\* recording; a later StartRecording on the same instance returns true and
\* spawns exactly one new thread when the recorder is still initialized and
\* not recording again, and returns false without a thread otherwise.
C5_StoppedCanRestart ==
    [][\A r \in Recorders :
          /\ Returned("StopRecording", r) => (initialized'[r] = initialized[r] /\ ~recording'[r])
          /\ (Returned("StartRecording", r) /\ stopped[r]) =>
                IF initialized[r] /\ ~recording[r]
                   THEN call'.ret = "true" /\ spawned'[r] = spawned[r] + 1
                   ELSE call'.ret = "false" /\ spawned'[r] = spawned[r]
      ]_vars

\* a recorder that was stopped has been started again
C5_Witness ==
    /\ call.op = "StartRecording" /\ call.ret = "true"
    /\ stopped[call.rec] /\ spawned[call.rec] = 2

\* C6: after a failed wait, GetNextPacketSize, GetBuffer or ReleaseBuffer
\* the acquisition thread is terminating or terminated; it is not back in
\* its loop waiting for or processing packets.
C6_FailureTerminatesThread ==
    \A r \in Recorders : failed[r] => tpc[r] \in {"exit", "done", "none"}

\* C7: in a dual session that has ended, when a fatal error ended one
\* source's thread, all samples captured by the other source have been
\* written to the sink.
C7_SurvivorSamplesWritten ==
    (~IsSingle(mode) /\ rc = 0) =>
        \A a \in Recorders, b \in Recorders :
            (a # b /\ fatal[a] /\ ~fatal[b]) => Len(written[b]) = appended[b]

\* C8: a session in which an acquisition thread died of a fatal error does
\* not return the result of a complete session (0).
C8_ResultTellsPartialFromComplete ==
    rc = 0 => \A r \in Sources(mode) : ~fatal[r]

\* C9: once an Initialize of a session has failed, the session has returned
\* the error 1, no acquisition thread was ever spawned, no sink was opened
\* and no sample written; in particular the first source of a dual session
\* was never started.
C9_InitFailureAbortsBeforeStart ==
    (\E r \in Recorders : initRes[r] = "failed") =>
        /\ rc = 1
        /\ \A r \in Recorders :
              spawned[r] = 0 /\ tpc[r] = "none" /\ ~recording[r] /\ written[r] = <<>>
        /\ \A k \in Sinks : sinkState[k] = "unopened"

\* a dual session whose second Initialize failed has returned
C9_Witness ==
    /\ ~IsSingle(mode) /\ spc = "returned"
    /\ initRes["loopback"] = "ok" /\ initRes["microphone"] = "failed"

\* C10: under fair scheduling every StopRecording that has set the stop
\* flag of a recording recorder returns (recording becomes false), and the
\* thread sees at most one wait timeout after the flag was set.
C10_StopRecordingReturns ==
    /\ [](\A r \in Recorders : lateTimeouts[r] <= 1)
    /\ \A r \in Recorders : (stopFlag[r] /\ recording[r]) ~> ~recording[r]

\* a StopRecording has returned on a source whose endpoint never delivered
\* a packet, after the thread timed out once with the flag set
C10_Witness ==
    \E r \in Recorders :
        stopped[r] /\ ~recording[r] /\ delivered[r] = 0 /\ lateTimeouts[r] = 1

\* C11: once an explicit stop has been requested, the loop that owns the
\* session runs no further drain: the next time it leaves the head of the
\* loop it goes to the teardown (StopRecording, close) and does not wait
\* for the timer.
C11_StopSignalEndsSession ==
    [][(stopSignal /\ spc = "loop" /\ spc' # "loop") => spc' = "stop"]_vars

\* C12: GetMicrophoneDevice takes the default capture endpoint when the
\* selector is empty; with a non-empty selector it takes the first
\* enumerated endpoint whose friendly name has the selector as a substring,
\* characters compared exactly; when no name has it, it takes the default
\* endpoint and fails only if there is no default endpoint.
C12_MicrophoneSelection ==
    device # NoDevice =>
        LET Has(i) ==
                /\ endpoints[i].readable
                /\ \E k \in 1..(Len(endpoints[i].name) + 1) :
                       \A j \in 1..Len(deviceSubstr) :
                           /\ k + j - 1 <= Len(endpoints[i].name)
                           /\ endpoints[i].name[k + j - 1] = deviceSubstr[j]
            Matching == {i \in 1..Len(endpoints) : Has(i)}
            TheDefault == IF defaultOk THEN [hr |-> "S_OK", dev |-> 0]
                                       ELSE [hr |-> "failed", dev |-> -1]
        IN  /\ deviceSubstr = <<>> => device = TheDefault
            /\ (deviceSubstr # <<>> /\ enumOk /\ Matching # {}) =>
                   /\ device.hr = "S_OK"
                   /\ device.dev \in Matching
                   /\ \A i \in Matching : device.dev <= i
            /\ (deviceSubstr # <<>> /\ enumOk /\ Matching = {}) => device = TheDefault

\* a selector that differs from the only friendly name by case alone has
\* fallen back to the default endpoint
C12_Witness ==
    /\ deviceSubstr = <<"a">>
    /\ endpoints = <<[name |-> <<"A">>, readable |-> TRUE]>>
    /\ device = [hr |-> "S_OK", dev |-> 0]

\* C13: what MixMono returns is as long as the longer of its two streams
\* and each of its elements lies in [-1, 1].
C13_MixMonoLengthAndRange ==
    ops = <<"MixMono">> =>
        /\ Len(result) >= Len(stream1) /\ Len(result) >= Len(stream2)
        /\ Len(result) = Len(stream1) \/ Len(result) = Len(stream2)
        /\ \A i \in 1..Len(result) : -100 <= result[i] /\ result[i] <= 100

\* streams of different lengths whose gained sum leaves [-1, 1] were mixed
C13_Witness ==
    /\ ops = <<"MixMono">>
    /\ Len(stream1) < Len(stream2)
    /\ \E i \in 1..Len(stream1) : stream1[i] * gain1 + stream2[i] * gain2 > 10000
    /\ \E i \in (Len(stream1) + 1)..Len(stream2) : stream2[i] * gain2 < -10000

\* C14: element i of MixMono(a, b, gainA, gainB) is a[i]*gainA + b[i]*gainB
\* clamped to [-1, 1], an index past the end of a stream contributing 0;
\* for constant 1.0 streams of 1000 and 1200 samples and gains 0.7 it is
\* 1.0 at the first 1000 places and 0.7 at the last 200.
C14_MixMonoElements ==
    ops = <<"MixMono">> =>
        /\ \A i \in 1..Len(result) :
              LET x == (IF i <= Len(stream1) THEN stream1[i] * gain1 ELSE 0)
                         + (IF i <= Len(stream2) THEN stream2[i] * gain2 ELSE 0)
              IN  result[i] * 100 = IF x > 10000 THEN 10000
                                    ELSE IF x < -10000 THEN -10000 ELSE x
        /\ (Len(stream1) = 1000 /\ Len(stream2) = 1200) =>
              /\ Len(result) = 1200
              /\ \A i \in 1..1000 : result[i] = 100
              /\ \A i \in 1001..1200 : result[i] = 70

\* the mixed-length scenario has been mixed
C14_Witness ==
    /\ ops = <<"MixMono">>
    /\ Len(stream1) = 1000 /\ Len(stream2) = 1200
    /\ gain1 = 70 /\ gain2 = 70
    /\ stream1[1000] = 100 /\ stream2[1200] = 100

\* C15: MixStereo(l, r) has 2*max(len(l), len(r)) elements; element 2i is
\* l[i] or 0 past the end of l, element 2i+1 is r[i] or 0 past the end of r
\* (i from 0).
C15_MixStereoInterleaves ==
    ops = <<"MixStereo">> =>
        /\ Len(result) >= 2 * Len(stream1) /\ Len(result) >= 2 * Len(stream2)
        /\ Len(result) = 2 * Len(stream1) \/ Len(result) = 2 * Len(stream2)
        /\ \A i \in 0..(Len(result) \div 2 - 1) :
              /\ result[2 * i + 1] = IF i < Len(stream1) THEN stream1[i + 1] ELSE 0
              /\ result[2 * i + 2] = IF i < Len(stream2) THEN stream2[i + 1] ELSE 0

\* a shorter left stream of non-zero samples was interleaved with a longer
\* right one
C15_Witness ==
    /\ ops = <<"MixStereo">>
    /\ Len(stream1) = 1 /\ Len(stream2) = 2
    /\ stream1[1] # 0 /\ stream2[1] # 0 /\ stream2[2] # 0 /\ stream1[1] # stream2[1]

\* C16: StereoToMono applied to MonoToStereo(x) returns x, also for the
\* empty x.
C16_StereoMonoRoundTrip ==
    ops = <<"MonoToStereo", "StereoToMono">> => result = stream1

\* a stream of two different non-zero samples has made the round trip
C16_Witness ==
    /\ ops = <<"MonoToStereo", "StereoToMono">>
    /\ Len(stream1) = 2
    /\ stream1[1] # 0 /\ stream1[2] # 0 /\ stream1[1] # stream1[2]

\* C17: every 16-bit sample that the acquisition thread has turned into a
\* float (division by 32768) and the drain loop has turned back (clamp,
\* product with 32767, truncation) differs from the original by at most 1.
C17_Int16RoundTrip ==
    convPc = "int16" =>
        /\ int16Back - int16Data <= 1
        /\ int16Data - int16Back <= 1

\* the most negative sample has made the round trip and came back changed
C17_Witness ==
    /\ convPc = "int16"
    /\ int16Data = -32768
    /\ int16Back = -32767

\* C18: when the acquisition thread handles a packet flagged silent of N
\* frames on a source with C channels, whatever the format of the endpoint,
\* the buffer of the source grows by exactly N*C samples, every one of
\* them 0, and the samples it held keep their places and values.
C18_SilentPacketAppendsZeros ==
    [][\A r \in Recorders :
          (tpc[r] = "append" /\ tpc'[r] = "release" /\ silent[r]) =>
              LET old == Len(audioBuffer[r])
                  n == packetLength[r] * nChannels[r]
              IN  /\ packetLength[r] > 0
                  /\ Len(audioBuffer'[r]) = old + n
                  /\ \A i \in 1..old : audioBuffer'[r][i] = audioBuffer[r][i]
                  /\ \A i \in (old + 1)..(old + n) : audioBuffer'[r][i] = 0]_vars

\* a silent packet has just been appended behind a sample of audio data
C18_Witness ==
    \E r \in Recorders :
        /\ tpc[r] = "release"
        /\ silent[r]
        /\ Len(audioBuffer[r]) >= 2
        /\ audioBuffer[r][1] # 0
        /\ audioBuffer[r][Len(audioBuffer[r])] = 0

\* C19: the buffer lock of a source is held only while samples are appended
\* or drained: the acquisition thread does not hold it while it converts
\* native samples to float32.
C19_LockOnlyForAppendAndDrain ==
    \A r \in Recorders : Converting(r) => bufferMutex[r] # "thread"

\* C20: a wait that times out while the stop flag is clear sends the thread
\* back to the loop condition with the buffer, the recorder's flags and its
\* error record unchanged, and from there the thread waits again.
C20_TimeoutIsNotAnError ==
    [][\A r \in Recorders :
          /\ (/\ tpc[r] = "wait" /\ tpc'[r] # "wait"
              /\ ~event[r] /\ faults' = faults /\ ~stopFlag[r]) =>
                 /\ tpc'[r] = "loop"
                 /\ audioBuffer'[r] = audioBuffer[r]
                 /\ initialized'[r] = initialized[r]
                 /\ recording'[r] = recording[r]
                 /\ stopFlag'[r] = stopFlag[r]
                 /\ failed'[r] = failed[r]
                 /\ fatal'[r] = fatal[r]
          /\ (tpc[r] = "loop" /\ tpc'[r] # "loop" /\ ~stopFlag[r]) =>
                 tpc'[r] = "wait"]_vars

\* a wait has timed out with the stop flag clear and audio in the buffer
C20_Witness ==
    \E r \in Recorders :
        /\ tpc[r] = "loop"
        /\ waitResult[r] = "WAIT_TIMEOUT"
        /\ ~stopFlag[r]
        /\ recording[r]
        /\ audioBuffer[r] # <<>>

\* C21: a packet flagged as a discontinuity is appended like any other:
\* the buffer grows by exactly frameCount * channelCount samples behind the
\* samples it held, and once the packet is released the thread asks for the
\* next one.
C21_DiscontinuityIsAppended ==
    [][\A r \in Recorders :
          /\ (/\ tpc[r] = "append" /\ tpc'[r] = "release"
              /\ Head(pending[r]).gap) =>
                 LET old == Len(audioBuffer[r])
                 IN  /\ Len(audioBuffer'[r]) = old + packetLength[r] * nChannels[r]
                     /\ \A i \in 1..old : audioBuffer'[r][i] = audioBuffer[r][i]
          /\ (/\ tpc[r] = "release" /\ tpc'[r] # "release"
              /\ Head(pending[r]).gap /\ faults' = faults) =>
                 tpc'[r] = "gnps2"]_vars

\* C22: in DUAL_STEREO every block handed to the writer holds, pair by pair,
\* a microphone sample on the left (odd element from 1) and a loopback
\* sample on the right, 0 past the end of a stream; in DUAL_MONO every
\* element is 0.7 * microphone + 0.7 * loopback, kept within [-1, 1].
C22_MixedBlocks ==
    (IsMixed(mode) /\ spc \in {"clear1", "clear2"}) =>
        LET mic == ToMono("microphone", data["microphone"])
            lb == ToMono("loopback", data["loopback"])
            n == IF Len(mic) > Len(lb) THEN Len(mic) ELSE Len(lb)
            at(st, i) == IF i <= Len(st) THEN st[i] ELSE 0
            sum(i) == (at(mic, i) * 70) \div 100 + (at(lb, i) * 70) \div 100
            b == block["mixed"]
        IN  IF mode = "DUAL_STEREO"
               THEN /\ Len(b) = 2 * n
                    /\ \A i \in 1..n : b[2 * i - 1] = at(mic, i) /\ b[2 * i] = at(lb, i)
               ELSE /\ Len(b) = n
                    /\ \A i \in 1..n :
                          b[i] = IF sum(i) > 100 THEN 100
                                 ELSE IF sum(i) < -100 THEN -100 ELSE sum(i)

\* a stereo block made of one microphone sample and one loopback sample
C22_Witness ==
    /\ mode = "DUAL_STEREO"
    /\ spc = "clear1"
    /\ data["microphone"] # <<>>
    /\ data["loopback"] # <<>>
    /\ block["mixed"] = <<40, 80>>

\* C23: in DUAL_SEPARATE each writer receives the drained block of its own
\* source as it is: every sample of the loopback writer's block is the
\* loopback sample at the same place of the copy, likewise for the
\* microphone, and nothing goes to a mixed writer.
C23_SeparateSinks ==
    (mode = "DUAL_SEPARATE" /\ spc \in {"clear1", "clear2"}) =>
        /\ block["mixed"] = <<>>
        /\ \A r \in Recorders :
              /\ Len(block[r]) = Len(data[r])
              /\ \A i \in 1..Len(data[r]) :
                    block[r][i] = IF r = "microphone" THEN 80 * data[r][i] - 40
                                  ELSE 80 * data[r][i]

\* both sources were drained in one pass and each block went to its writer
C23_Witness ==
    /\ mode = "DUAL_SEPARATE"
    /\ spc = "clear1"
    /\ block["loopback"] = <<80>>
    /\ block["microphone"] = <<40>>
    /\ sinkState["loopback"] = "open"
    /\ sinkState["microphone"] = "open"

\* C24: the state of a session only moves forward through Idle, Recording,
\* Draining, Stopped; a writer is closed only when no acquisition thread of
\* the session is left unjoined; and no block is handed to a writer that is
\* not open.
C24_SessionOrder ==
    [][LET rank(st) == CASE st = "Idle" -> 0 [] st = "Recording" -> 1
                         [] st = "Draining" -> 2 [] OTHER -> 3
       IN  /\ rank(SessionState) <= rank(SessionState')
           /\ \A k \in Sinks :
                 (sinkState[k] = "open" /\ sinkState'[k] = "closed") =>
                     \A r \in Recorders : tpc[r] = "none"
           /\ \A r \in Recorders :
                 written'[r] # written[r] => sinkState[SinkOf(mode, r)] = "open"]_vars

\* a dual session has written samples, joined both threads and closed
C24_Witness ==
    /\ mode = "DUAL_SEPARATE"
    /\ rc = 0
    /\ written["loopback"] # <<>>
    /\ spawned["loopback"] = 1 /\ spawned["microphone"] = 1
    /\ sinkState["loopback"] = "closed" /\ sinkState["microphone"] = "closed"

\* C25: when the acquisition thread handles a packet of data whose format
\* is none of float32, 16-bit and 32-bit integer, it records an error: the
\* packet is not passed over silently with its frames missing.
C25_UnsupportedFormatReported ==
    [][\A r \in Recorders :
          (/\ tpc[r] = "append" /\ tpc'[r] = "release"
           /\ ~silent[r] /\ mixFormat[r] \notin {"float32", "int16", "int32"}) =>
              \/ failed'[r]
              \/ Len(audioBuffer'[r]) = Len(audioBuffer[r]) + packetLength[r] * nChannels[r]]_vars

\* C26: a failure of a writer aborts the session at once with an error
\* result: a failed open and a block handed to a writer whose writes fail
\* both set a return value other than 0 in the same step, and the session
\* returns with every thread joined and every endpoint released.
C26_SinkFailureAborts ==
    [][/\ (spc = "open" /\ spc' # "start") => rc' \notin {NoRc, 0}
       /\ (writeFault /\ \E r \in Recorders : written'[r] # written[r]) =>
              rc' \notin {NoRc, 0}
       /\ spc' = "returned" =>
              \A r \in Recorders : tpc'[r] = "none" /\ ~initialized'[r]]_vars

\* C27: a recorder's thread object is assigned only when it holds no
\* thread that is still running or unjoined, one new thread per assignment,
\* so that no source ever has two acquisition threads and no more than two
\* acquisition threads exist.
C27_OneThreadPerSource ==
    [][/\ \A r \in Recorders :
             spawned'[r] # spawned[r] =>
                 /\ tpc[r] = "none"
                 /\ spawned'[r] = spawned[r] + 1
                 /\ tpc'[r] = "start"
       /\ Cardinality({r \in Recorders : tpc'[r] # "none"}) <= 2]_vars

\* the thread object of a recorder was assigned a second time and the
\* second thread is in its acquisition loop
C27_Witness ==
    \E r \in Recorders :
        /\ spawned[r] = 2
        /\ Streaming(r)
        /\ recording[r]

\* C28: whenever the session copies or clears the buffer of a source, the
\* acquisition thread is not in the middle of a packet: the buffer holds
\* every sample of each packet stored so far or none of them.
C28_NoPartialAppendObserved ==
    [][\A r \in Recorders :
          (\/ data'[r] # data[r]
           \/ audioBuffer[r] # <<>> /\ audioBuffer'[r] = <<>>) =>
              ~(/\ tpc[r] = "append"
                /\ todo[r] < packetLength[r] * nChannels[r])]_vars

\* the session holds the copy of a whole packet while the thread, the lock
\* in hand, has stored a part of the next packet
C28_Witness ==
    \E r \in Recorders :
        /\ spc = "clear"
        /\ Len(data[r]) = packetLength[r] * nChannels[r]
        /\ tpc[r] = "append"
        /\ bufferMutex[r] = "thread"
        /\ 0 < todo[r] /\ todo[r] < packetLength[r] * nChannels[r]

\* C29: the samples of one source are handed to the writer in the order of
\* their capture: of two samples written, the one appended to the buffer
\* first comes first, whatever the drain cycles that carried them.
C29_CaptureOrderKept ==
    \A r \in Recorders :
        \A i, j \in 1..Len(written[r]) :
            i < j => written[r][i] < written[r][j]

\* two samples of one source were written in two drain cycles
C29_Witness ==
    \E r \in Recorders :
        /\ spc \in {"clear", "clear1"}
        /\ Len(written[r]) >= 2
        /\ Len(data[r]) < Len(written[r])
        /\ data[r] # <<>>

\* C30: no sample is handed to a writer twice, and when a drain cycle
\* begins the buffer holds none of the samples already written.
C30_NoSampleWrittenTwice ==
    \A r \in Recorders :
        /\ \A i, j \in 1..Len(written[r]) :
              written[r][i] = written[r][j] => i = j
        /\ spc = "loop" =>
              \A i \in 1..Len(written[r]), k \in 1..Len(audioBuffer[r]) :
                  written[r][i] # audioBuffer[r][k]

\* a drain cycle begins with a written sample behind it and a new sample
\* in the buffer
C30_Witness ==
    \E r \in Recorders :
        /\ spc = "loop"
        /\ written[r] # <<>>
        /\ audioBuffer[r] # <<>>
        /\ recording[r]

\* C31: every writer of the modes that write a source's samples as they were
\* captured (the single modes and DUAL_SEPARATE) is opened with the sample
\* rate and the channel count of that source: the microphone file with the
\* microphone's, the loopback file with the loopback's, for every combination
\* of the two native formats.
C31_HeaderMatchesSource ==
    (openMode \in {"LOOPBACK_ONLY", "MICROPHONE_ONLY", "DUAL_SEPARATE"})
        => \A r \in Recorders :
              header[r] # NoHeader => header[r] = GetAudioFormat(r)

\* C32: the block handed to the mixer has one sample per frame of the drained
\* block, the average of the frame's channels, for every channel count
\* (1, 2 or more): index i of the mixer input is frame i of the source.
C32_OneSamplePerFrame ==
    monoPc = "reduced" =>
        LET frames == Len(srcBlock) \div srcChannels
            FrameSum(i) == LET S[c \in 0..srcChannels] ==
                                   IF c = 0 THEN 0
                                   ELSE S[c - 1] + srcBlock[(i - 1) * srcChannels + c]
                           IN  S[srcChannels]
        IN  /\ Len(mono) = frames
            /\ \A i \in 1..frames : mono[i] * srcChannels = FrameSum(i)

\* C33: once the timer has expired or shouldStop has been set, the recording
\* thread of record.cpp terminates, whatever GetNextPacketSize and GetBuffer
\* return.
C33_RecordingThreadTerminates ==
    (recPc \in {"loop", "size", "buffer"} /\ (timer \/ shouldStop))
        ~> (recPc \in {"done", "joined"})

C35_ReleasedExactlyOnce ==
    resPc.fn = "destroyed" =>
        \A r \in Resources : resReleased[r] = resAcquired[r]

\* C36: when a WASAPI recorder of main.cpp has been destroyed, CoUninitialize
\* has been called once for every successful CoInitializeEx of its
\* Initialize, on every path: success, a failure of any step, Cleanup
\* called more than once.
C36_ComBalanced ==
    comPc.fn = "destroyed" => comUninits = comInits

\* C37: StereoToMono(s) has one element per frame, (n + 1) / 2 of them for an
\* input of n samples; element i is half the sum of the two samples of frame
\* i, and for an odd n the last element is half of the last sample alone
\* (nothing past the end of the input enters the result).
C37_StereoToMonoHalvesFrames ==
    ops = <<"StereoToMono">> =>
        LET n == Len(stream1)
        IN  /\ Len(result) = (n + 1) \div 2
            /\ \A i \in 1..Len(result) :
                  2 * result[i] =
                      stream1[2 * i - 1] + (IF 2 * i <= n THEN stream1[2 * i] ELSE 0)
            /\ n % 2 = 1 => 2 * result[Len(result)] = stream1[n]

\* an input of odd length with a non-zero last sample has been converted
C37_Witness ==
    /\ ops = <<"StereoToMono">>
    /\ Len(stream1) % 2 = 1
    /\ stream1[Len(stream1)] # 0

\* C38: every sample pushed to the data of a WAV file lies in
\* [-32767, 32767], whatever float the conversion loop is given: the float is
\* clamped to [-1, 1] before the product with 32767.
C38_WrittenSampleInRange ==
    clampPc = "int16" => fOut >= -32767 /\ fOut <= 32767

\* floats far above 1.0 and far below -1.0 have been converted
C38_Witness ==
    /\ clampPc = "int16"
    /\ fPath = "drain"
    /\ ~fIn.nan
    /\ \/ fIn.v >= 65536 /\ fOut = 32767
       \/ fIn.v <= -65536 /\ fOut = -32767

\* C39: in every capture mode, when the recording step has returned 0, the
\* run has created a WAV file at the path the transcription step reads, the
\* --out path.
C39_TranscribedFileExists ==
    pathRc = 0 => outPath \in files /\ (readPath # <<>> => readPath \in files)

\* C40: fed the same wait results, packets (frames, flags, format) and call
\* failures, the loopback loop and the microphone loop are at the same
\* statement with the same packetLength and the same buffer contents after
\* every step, and so end at the same point.
C40_LoopsEquivalent == lbThread = micThread

\* both loops have finished after a silent packet and a packet of data
C40_Witness ==
    /\ lbThread.pc = "finished"
    /\ micThread.pc = "finished"
    /\ \E i, j \in 1..Len(lbThread.audioBuffer) :
          lbThread.audioBuffer[i] = 0 /\ lbThread.audioBuffer[j] = 1

====
